---- MODULE Spec2Model ----
(***************************************************************************)
(* Namecheap MCP server: the client (NamecheapClient), its gateway         *)
(* (makeRequest) and the DNS / domain tools built on it, together with the *)
(* remote registrar they talk to.  Strings that the code takes apart       *)
(* (domain names) are sequences of one-character strings; other strings    *)
(* are atoms.  Message texts are sequences of parts, so a concatenation is *)
(* a concatenation of sequences.                                           *)
(***************************************************************************)
EXTENDS Naturals, Sequences, FiniteSets, TLC

VARIABLES
    zone,         \* remote: hosts of every zone, keyed by <<SLD, TLD>>
    registered,   \* remote: the domain names that are already registered
    pc,           \* per caller: position inside the operation in flight
    op,           \* per caller: the operation in flight and its arguments
    readSet,      \* per caller: what getDNSRecords returned to the operation
    calls,        \* per caller: gateway requests issued by the operation
    lastResp,     \* per caller: the response to the latest gateway request
    result,       \* per caller: outcome of the operation
    stale,        \* per caller: the zone was written by another caller after my read
    lastWriter,   \* per zone: caller in flight whose write the remote applied last
    expected,     \* per zone: the operations applied one after another, as long as
                  \* they are serial and no call failed; after that, what the zone holds
    failures,     \* number of gateway calls whose reply made the operation fail
    overlapped,   \* two operations were in flight at the same time at some point
    opsStarted,   \* number of operations started
    client,       \* the NamecheapClient: its configuration and its endpoint
    outstanding,  \* per caller: gateway requests sent and not yet answered
    local,        \* per caller: the local variables of the tool in flight
    history       \* per zone: the writes tools applied, each with the content it left

\* what only the tools of the last specification change
toolVars == <<client, outstanding, local, history>>

vars == <<zone, registered, pc, op, readSet, calls, lastResp, result, stale,
          lastWriter, expected, failures, overlapped, opsStarted, client, outstanding,
          local, history>>

-----------------------------------------------------------------------------
(* Bounds *)

MaxOps == 2

MaxFailures == 1

Clients == {"c1", "c2"}

-----------------------------------------------------------------------------
(* JavaScript values *)

\* the value of a missing attribute or an unset optional field
Undefined == "<undefined>"

\* a key that is not present in a Partial<DNSRecord>
Absent == "<absent>"

\* JavaScript truthiness of an optional string: undefined and "" are falsy
Truthy(v) == v # Undefined /\ v # Absent /\ v # ""

Fields == {"hostId", "name", "type", "address", "mxPref", "ttl"}

DNSRecord(n, t, a, p, l) ==
    [hostId |-> Absent, name |-> n, type |-> t, address |-> a, mxPref |-> p, ttl |-> l]

Partial(h, n, t, a, p, l) ==
    [hostId |-> h, name |-> n, type |-> t, address |-> a, mxPref |-> p, ttl |-> l]

\* record[key] in JavaScript: a missing key reads as undefined
FieldOf(record, key) == IF record[key] = Absent THEN Undefined ELSE record[key]

-----------------------------------------------------------------------------
(* Strings the code takes apart *)

RECURSIVE Split(_, _)
Split(s, sep) ==
    IF \A i \in 1..Len(s) : s[i] # sep
    THEN <<s>>
    ELSE LET i == CHOOSE k \in 1..Len(s) :
                      s[k] = sep /\ \A j \in 1..(k - 1) : s[j] # sep
         IN  <<SubSeq(s, 1, i - 1)>> \o Split(SubSeq(s, i + 1, Len(s)), sep)

RECURSIVE Join(_, _)
Join(parts, sep) ==
    IF Len(parts) = 0 THEN <<>>
    ELSE IF Len(parts) = 1 THEN parts[1]
    ELSE parts[1] \o <<sep>> \o Join(Tail(parts), sep)

\* domain.split('.')[0]
SldOf(domain) == Split(domain, ".")[1]

\* domain.split('.').slice(1).join('.')
TldOf(domain) == Join(Tail(Split(domain, ".")), ".")

Domains == { <<"a", ".", "c">>, <<"a", ".", "c", ".", "u">> }

ZoneKeys == { <<SldOf(d), TldOf(d)>> : d \in Domains }

-----------------------------------------------------------------------------
(* Errors *)

NoError == [name |-> "", message |-> <<>>, code |-> Undefined]

\* new NamecheapError(message, code)
NamecheapError(message, code) ==
    [name |-> "NamecheapError", message |-> message, code |-> code]

\* new Error(message): a plain error carries no code
PlainError(message) == [name |-> "Error", message |-> message, code |-> Undefined]

-----------------------------------------------------------------------------
(* The remote registrar *)

\* identifiers the remote gives to the hosts of a zone, by position
HostIds == <<"h1", "h2", "h3", "h4", "h5", "h6", "h7", "h8", "h9", "h10", "h11", "h12",
            "h13", "h14", "h15", "h16", "h17", "h18", "h19", "h20", "h21", "h22", "h23",
            "h24">>

Host(n, t, a, p, l) == [Name |-> n, Type |-> t, Address |-> a, MXPref |-> p, TTL |-> l]

Err1 == [Number |-> "2019166", text |-> "Domain name already exists"]

Err2 == [Number |-> "1011150", text |-> "Parameter RequestIP is invalid"]

\* the answer to a DNS command on a zone the account does not hold
Err3 == [Number |-> "2030166", text |-> "Domain is invalid"]

\* the Errors node of a response with Status="ERROR"
ErrorLists == { <<Err2, Err1>>, <<>> }

TransportCauses == {"connect ECONNREFUSED", "timeout exceeded"}

\* domains the registrar sells at a premium, with the price it quotes
PremiumPrices == (<<"p", ".", "c">> :> "13")

\* CommandResponse[0] as xml2js gives it: every child element is an array
ResultTree(hostsResult, checkResult, createResult) ==
    [DomainDNSGetHostsResult |-> hostsResult, DomainCheckResult |-> checkResult,
     DomainCreateResult |-> createResult]

EmptyTree == ResultTree(<<>>, <<>>, <<>>)

HttpResponse(status, errors, body) ==
    [transport |-> "ok", Status |-> status, Errors |-> errors, body |-> body]

TransportFailure(cause) ==
    [transport |-> cause, Status |-> "", Errors |-> <<>>, body |-> EmptyTree]

NoResponse == [transport |-> "", Status |-> "", Errors |-> <<>>, body |-> EmptyTree]

\* replies the remote may give whatever the command: an error status, or no reply
FailureReplies ==
    IF failures < MaxFailures
    THEN { HttpResponse("ERROR", e, EmptyTree) : e \in ErrorLists }
            \cup { TransportFailure(t) : t \in TransportCauses }
    ELSE {}

\* a success that carries none of the result nodes the command should give
NodelessReplies ==
    IF failures < MaxFailures THEN { HttpResponse("OK", <<>>, EmptyTree) } ELSE {}

\* a request whose reply was lost after a timeout may still have been carried out
Applied(resp) ==
    \/ resp.transport = "ok" /\ resp.Status = "OK"
    \/ resp.transport = "timeout exceeded"

\* the zone a DNS command addresses
ZoneOf(params) == <<params[<<"SLD", 0>>], params[<<"TLD", 0>>]>>

\* namecheap.domains.dns.getHosts: the hosts of the zone (SLD, TLD)
RemoteGetHosts(params) ==
    LET hosts == zone[ZoneOf(params)]
    IN  ResultTree(
            <<[host |-> [i \in 1..Len(hosts) |->
                           [HostId |-> HostIds[i], Name |-> hosts[i].Name,
                            Type |-> hosts[i].Type, Address |-> hosts[i].Address,
                            MXPref |-> hosts[i].MXPref, TTL |-> hosts[i].TTL]]]>>,
            <<>>, <<>>)

\* getHosts is refused for a zone the account does not hold
RemoteGetHostsReplies(params) ==
    IF ZoneOf(params) \in DOMAIN zone
    THEN { HttpResponse("OK", <<>>, RemoteGetHosts(params)) }
    ELSE { HttpResponse("ERROR", <<Err3>>, EmptyTree) }

\* namecheap.domains.dns.setHosts: the hosts the indexed parameters describe
HostsFromParams(params) ==
    LET n == Cardinality({k \in DOMAIN params : k[1] = "HostName"})
        opt(key, i) == IF <<key, i>> \in DOMAIN params THEN params[<<key, i>>]
                       ELSE Undefined
    IN  [i \in 1..n |->
            Host(params[<<"HostName", i>>], params[<<"RecordType", i>>],
                 params[<<"Address", i>>], opt("MXPref", i), opt("TTL", i))]

\* the zone (SLD, TLD) is replaced as a whole
RemoteSetHosts(params) ==
    IF ZoneOf(params) \in DOMAIN zone
    THEN [zone EXCEPT ![ZoneOf(params)] = HostsFromParams(params)]
    ELSE zone

\* setHosts is refused for a zone the account does not hold
RemoteSetHostsReplies(params) ==
    IF ZoneOf(params) \in DOMAIN zone
    THEN { HttpResponse("OK", <<>>, EmptyTree) }
    ELSE { HttpResponse("ERROR", <<Err3>>, EmptyTree) }

\* namecheap.domains.check: one DomainCheckResult per domain of the comma-separated
\* DomainList, in the order of the list
RemoteCheck(domainList) ==
    LET listed == Split(domainList, ",")
    IN  ResultTree(<<>>,
                   [i \in 1..Len(listed) |->
                       [Domain |-> listed[i],
                        Available |-> IF listed[i] \in registered THEN "false"
                                      ELSE "true",
                        IsPremiumName |-> IF listed[i] \in DOMAIN PremiumPrices
                                          THEN "true" ELSE "false",
                        PremiumRegistrationPrice |->
                            IF listed[i] \in DOMAIN PremiumPrices
                            THEN PremiumPrices[listed[i]] ELSE Undefined]],
                   <<>>)

\* namecheap.domains.create: refused when the domain exists already
RemoteCreateReplies(domain) ==
    IF domain \in registered
    THEN { HttpResponse("ERROR", <<Err1>>, EmptyTree) }
    ELSE { HttpResponse("OK", <<>>,
                        ResultTree(<<>>, <<>>, <<[DomainID |-> "id", OrderID |-> "order"]>>)) }

-----------------------------------------------------------------------------
(* Remote Command Gateway *)

\* process.env as the tools read it when they construct their client
Configs ==
    { [apiUser |-> "user", apiKey |-> "key", clientIp |-> "ip", sandbox |-> s] :
        s \in BOOLEAN }

\* new NamecheapClient(config)
NewClient(config) ==
    [config |-> config,
     apiUrl |-> IF config.sandbox THEN "https://api.sandbox.namecheap.com/xml.response"
                ELSE "https://api.namecheap.com/xml.response"]

\* mutant: the request is posted to the production endpoint whatever the client's
RequestToProduction(command, params) ==
    [command |-> command, params |-> params,
     url |-> "https://api.namecheap.com/xml.response",
     ApiUser |-> client.config.apiUser, ApiKey |-> client.config.apiKey,
     UserName |-> client.config.apiUser, ClientIp |-> client.config.clientIp]

\* axios.post(this.apiUrl, null, { params: { ApiUser, ApiKey, UserName, ClientIp,
\* Command, ...params } })
Request(command, params) ==
    [command |-> command, params |-> params, url |-> client.apiUrl,
     ApiUser |-> client.config.apiUser, ApiKey |-> client.config.apiKey,
     UserName |-> client.config.apiUser, ClientIp |-> client.config.clientIp]

\* mutant: an error status is ignored and the response returned
MakeRequestIgnoresStatus(resp) ==
    IF resp.transport # "ok"
    THEN [threw |-> TRUE,
          error |-> NamecheapError(<<"API request failed: ", resp.transport>>,
                                   "REQUEST_FAILED"),
          response |-> NoResponse]
    ELSE [threw |-> FALSE, error |-> NoError, response |-> resp]

\* mutant: the last reported error is used instead of the first
MakeRequestLastError(resp) ==
    IF resp.transport # "ok"
    THEN [threw |-> TRUE,
          error |-> NamecheapError(<<"API request failed: ", resp.transport>>,
                                   "REQUEST_FAILED"),
          response |-> NoResponse]
    ELSE IF resp.Status = "ERROR"
    THEN IF Len(resp.Errors) = 0
         THEN [threw |-> TRUE,
               error |-> NamecheapError(<<"API request failed: ", "TypeError">>,
                                        "REQUEST_FAILED"),
               response |-> NoResponse]
         ELSE [threw |-> TRUE,
               error |-> NamecheapError(<<resp.Errors[Len(resp.Errors)].text>>,
                                        resp.Errors[Len(resp.Errors)].Number),
               response |-> NoResponse]
    ELSE [threw |-> FALSE, error |-> NoError, response |-> resp]

\* mutant: the catch wraps every error, the gateway's own NamecheapError included
MakeRequestWrapsAll(resp) ==
    IF resp.transport # "ok"
    THEN [threw |-> TRUE,
          error |-> NamecheapError(<<"API request failed: ", resp.transport>>,
                                   "REQUEST_FAILED"),
          response |-> NoResponse]
    ELSE IF resp.Status = "ERROR"
    THEN IF Len(resp.Errors) = 0
         THEN [threw |-> TRUE,
               error |-> NamecheapError(<<"API request failed: ", "TypeError">>,
                                        "REQUEST_FAILED"),
               response |-> NoResponse]
         ELSE [threw |-> TRUE,
               error |-> NamecheapError(<<"API request failed: ", resp.Errors[1].text>>,
                                        "REQUEST_FAILED"),
               response |-> NoResponse]
    ELSE [threw |-> FALSE, error |-> NoError, response |-> resp]

\* makeRequest, from the reply on: what it throws or returns
MakeRequest(resp) ==
    IF resp.transport # "ok"
    THEN \* axios.post / parseStringPromise threw: wrapped by the catch
         [threw |-> TRUE,
          error |-> NamecheapError(<<"API request failed: ", resp.transport>>,
                                   "REQUEST_FAILED"),
          response |-> NoResponse]
    ELSE IF resp.Status = "ERROR"
    THEN IF Len(resp.Errors) = 0
         THEN \* Errors[0].Error[0] of an empty node: a TypeError, wrapped by the catch
              [threw |-> TRUE,
               error |-> NamecheapError(<<"API request failed: ", "TypeError">>,
                                        "REQUEST_FAILED"),
               response |-> NoResponse]
         ELSE [threw |-> TRUE,
               error |-> NamecheapError(<<resp.Errors[1].text>>, resp.Errors[1].Number),
               response |-> NoResponse]
    ELSE [threw |-> FALSE, error |-> NoError, response |-> resp]

-----------------------------------------------------------------------------
(* Domain/DNS Operations Facade: pure parts *)

\* mutant: the domain is split at its last dot
GetHostsParamsLastDot(domain) ==
    LET labels == Split(domain, ".")
    IN  (<<"SLD", 0>> :> Join(SubSeq(labels, 1, Len(labels) - 1), "."))
            @@ (<<"TLD", 0>> :> labels[Len(labels)])

GetHostsParams(domain) ==
    (<<"SLD", 0>> :> SldOf(domain)) @@ (<<"TLD", 0>> :> TldOf(domain))

\* reading [0] of a result node the response does not have
TypeError == [name |-> "TypeError", message |-> <<"Cannot read properties of undefined">>,
              code |-> Undefined]

\* mutant: the TTL is read from an attribute the response does not have
GetDNSRecordsResultNoTtl(tree) ==
    LET hosts == tree.DomainDNSGetHostsResult[1].host
    IN  [i \in 1..Len(hosts) |->
            [hostId |-> hosts[i].HostId, name |-> hosts[i].Name, type |-> hosts[i].Type,
             address |-> hosts[i].Address, mxPref |-> hosts[i].MXPref,
             ttl |-> Undefined]]

\* getDNSRecords: hosts.map(host => ({hostId, name, type, address, mxPref, ttl}))
GetDNSRecordsResult(tree) ==
    LET hosts == tree.DomainDNSGetHostsResult[1].host
    IN  [i \in 1..Len(hosts) |->
            [hostId |-> hosts[i].HostId, name |-> hosts[i].Name, type |-> hosts[i].Type,
             address |-> hosts[i].Address, mxPref |-> hosts[i].MXPref,
             ttl |-> hosts[i].TTL]]

\* parseFloat of a price: the number the digits stand for
ParseFloat(text) ==
    CASE text = "0" -> 0
      [] text = "13" -> 13
      [] OTHER -> 0

\* result.$.PremiumRegistrationPrice ? parseFloat(...) : undefined
PremiumPrice(text) ==
    IF Truthy(text) THEN [defined |-> TRUE, number |-> ParseFloat(text)]
    ELSE [defined |-> FALSE, number |-> 0]

\* the object checkDomain and checkDomains build from one DomainCheckResult
CheckResultOf(node) ==
    [domain |-> node.Domain,
     available |-> node.Available = "true",
     isPremium |-> node.IsPremiumName = "true",
     premiumPrice |-> PremiumPrice(node.PremiumRegistrationPrice)]

\* mutant: the Available attribute is tested for presence, and "false" is present
CheckDomainResultTruthy(tree) ==
    [CheckResultOf(tree.DomainCheckResult[1]) EXCEPT
        !.available = Truthy(tree.DomainCheckResult[1].Available)]

\* checkDomain: the first DomainCheckResult
CheckDomainResult(tree) == CheckResultOf(tree.DomainCheckResult[1])

\* mutant: only the available domains are reported
CheckDomainsResultAvailableOnly(tree) ==
    LET kept == SelectSeq(tree.DomainCheckResult, LAMBDA n : n.Available = "true")
    IN  [i \in 1..Len(kept) |-> CheckResultOf(kept[i])]

\* checkDomains: DomainCheckResult.map(result => ({...}))
CheckDomainsResult(tree) ==
    [i \in 1..Len(tree.DomainCheckResult) |-> CheckResultOf(tree.DomainCheckResult[i])]

\* checkDomains: DomainList is domains.join(',')
CheckDomainsParams(domains) == (<<"DomainList", 0>> :> Join(domains, ","))

\* registerDomain: the identifiers of the first DomainCreateResult
RegisterDomainResult(tree) ==
    [domainId |-> tree.DomainCreateResult[1].DomainID,
     orderId |-> tree.DomainCreateResult[1].OrderID]

\* mutant: the optional parameters are numbered from 0
SetHostsParamsShifted(domain, records) ==
    LET n == Len(records)
        keys == {<<"SLD", 0>>, <<"TLD", 0>>}
                  \cup { <<"HostName", i>> : i \in 1..n }
                  \cup { <<"RecordType", i>> : i \in 1..n }
                  \cup { <<"Address", i>> : i \in 1..n }
                  \cup { <<"MXPref", i - 1>> : i \in {j \in 1..n : Truthy(records[j].mxPref)} }
                  \cup { <<"TTL", i - 1>> : i \in {j \in 1..n : Truthy(records[j].ttl)} }
    IN  [k \in keys |->
            CASE k[1] = "SLD" -> SldOf(domain)
              [] k[1] = "TLD" -> TldOf(domain)
              [] k[1] = "HostName" -> records[k[2]].name
              [] k[1] = "RecordType" -> records[k[2]].type
              [] k[1] = "Address" -> records[k[2]].address
              [] k[1] = "MXPref" -> records[k[2] + 1].mxPref
              [] k[1] = "TTL" -> records[k[2] + 1].ttl]

\* mutant: a priority of "0" counts as no priority
SetHostsParamsZeroFalsy(domain, records) ==
    LET n == Len(records)
        keys == {<<"SLD", 0>>, <<"TLD", 0>>}
                  \cup { <<"HostName", i>> : i \in 1..n }
                  \cup { <<"RecordType", i>> : i \in 1..n }
                  \cup { <<"Address", i>> : i \in 1..n }
                  \cup { <<"MXPref", i>> : i \in {j \in 1..n :
                            Truthy(records[j].mxPref) /\ records[j].mxPref # "0"} }
                  \cup { <<"TTL", i>> : i \in {j \in 1..n : Truthy(records[j].ttl)} }
    IN  [k \in keys |->
            CASE k[1] = "SLD" -> SldOf(domain)
              [] k[1] = "TLD" -> TldOf(domain)
              [] k[1] = "HostName" -> records[k[2]].name
              [] k[1] = "RecordType" -> records[k[2]].type
              [] k[1] = "Address" -> records[k[2]].address
              [] k[1] = "MXPref" -> records[k[2]].mxPref
              [] k[1] = "TTL" -> records[k[2]].ttl]

\* mutant: the TLD is taken to be the last label of the domain
SetHostsParamsLastLabel(domain, records) ==
    LET n == Len(records)
        labels == Split(domain, ".")
        keys == {<<"SLD", 0>>, <<"TLD", 0>>}
                  \cup { <<"HostName", i>> : i \in 1..n }
                  \cup { <<"RecordType", i>> : i \in 1..n }
                  \cup { <<"Address", i>> : i \in 1..n }
                  \cup { <<"MXPref", i>> : i \in {j \in 1..n : Truthy(records[j].mxPref)} }
                  \cup { <<"TTL", i>> : i \in {j \in 1..n : Truthy(records[j].ttl)} }
    IN  [k \in keys |->
            CASE k[1] = "SLD" -> SldOf(domain)
              [] k[1] = "TLD" -> labels[Len(labels)]
              [] k[1] = "HostName" -> records[k[2]].name
              [] k[1] = "RecordType" -> records[k[2]].type
              [] k[1] = "Address" -> records[k[2]].address
              [] k[1] = "MXPref" -> records[k[2]].mxPref
              [] k[1] = "TTL" -> records[k[2]].ttl]

\* mutant: the TLD is the second label alone
SetHostsParamsSecondLabel(domain, records) ==
    LET n == Len(records)
        labels == Split(domain, ".")
        keys == {<<"SLD", 0>>, <<"TLD", 0>>}
                  \cup { <<"HostName", i>> : i \in 1..n }
                  \cup { <<"RecordType", i>> : i \in 1..n }
                  \cup { <<"Address", i>> : i \in 1..n }
                  \cup { <<"MXPref", i>> : i \in {j \in 1..n : Truthy(records[j].mxPref)} }
                  \cup { <<"TTL", i>> : i \in {j \in 1..n : Truthy(records[j].ttl)} }
    IN  [k \in keys |->
            CASE k[1] = "SLD" -> SldOf(domain)
              [] k[1] = "TLD" -> IF Len(labels) > 1 THEN labels[2] ELSE <<>>
              [] k[1] = "HostName" -> records[k[2]].name
              [] k[1] = "RecordType" -> records[k[2]].type
              [] k[1] = "Address" -> records[k[2]].address
              [] k[1] = "MXPref" -> records[k[2]].mxPref
              [] k[1] = "TTL" -> records[k[2]].ttl]

\* setDNSRecords: SLD, TLD and the records flattened into indexed parameters
SetHostsParams(domain, records) ==
    LET n == Len(records)
        keys == {<<"SLD", 0>>, <<"TLD", 0>>}
                  \cup { <<"HostName", i>> : i \in 1..n }
                  \cup { <<"RecordType", i>> : i \in 1..n }
                  \cup { <<"Address", i>> : i \in 1..n }
                  \cup { <<"MXPref", i>> : i \in {j \in 1..n : Truthy(records[j].mxPref)} }
                  \cup { <<"TTL", i>> : i \in {j \in 1..n : Truthy(records[j].ttl)} }
    IN  [k \in keys |->
            CASE k[1] = "SLD" -> SldOf(domain)
              [] k[1] = "TLD" -> TldOf(domain)
              [] k[1] = "HostName" -> records[k[2]].name
              [] k[1] = "RecordType" -> records[k[2]].type
              [] k[1] = "Address" -> records[k[2]].address
              [] k[1] = "MXPref" -> records[k[2]].mxPref
              [] k[1] = "TTL" -> records[k[2]].ttl]

\* mutant: one equal criteria field is enough
MatchesAny(record, criteria) ==
    \E f \in Fields : criteria[f] # Absent /\ FieldOf(record, f) = criteria[f]

\* mutant: criteria without a field match nothing
MatchesNonEmpty(record, criteria) ==
    /\ \E f \in Fields : criteria[f] # Absent
    /\ \A f \in Fields : criteria[f] # Absent => FieldOf(record, f) = criteria[f]

\* Object.entries(criteria).every(([key, value]) => record[key] === value)
Matches(record, criteria) ==
    \A f \in Fields : criteria[f] # Absent => FieldOf(record, f) = criteria[f]

\* mutant: { ...updates, ...record }, the record's own fields win
MergeRecordWins(record, updates) ==
    LET pick(f) == IF record[f] # Absent THEN record[f] ELSE updates[f]
    IN  [hostId |-> pick("hostId"), name |-> pick("name"), type |-> pick("type"),
         address |-> pick("address"), mxPref |-> pick("mxPref"), ttl |-> pick("ttl")]

\* { ...record, ...updates }
Merge(record, updates) ==
    LET pick(f) == IF updates[f] # Absent THEN updates[f] ELSE record[f]
    IN  [hostId |-> pick("hostId"), name |-> pick("name"), type |-> pick("type"),
         address |-> pick("address"), mxPref |-> pick("mxPref"), ttl |-> pick("ttl")]

\* mutant: the new record replaces the last existing one
AddTransformOverwrites(existingRecords, record) ==
    IF Len(existingRecords) = 0 THEN <<record>>
    ELSE [existingRecords EXCEPT ![Len(existingRecords)] = record]

\* mutant: a record equal to an existing one is not added again
AddTransformDedup(existingRecords, record) ==
    IF \E i \in 1..Len(existingRecords) :
          \A f \in Fields \ {"hostId"} : FieldOf(existingRecords[i], f) = FieldOf(record, f)
    THEN existingRecords
    ELSE Append(existingRecords, record)

\* addDNSRecord: [...existingRecords, record]
AddTransform(existingRecords, record) == Append(existingRecords, record)

\* mutant: every record takes the updates
UpdateTransformAll(records, criteria, updates) ==
    [i \in 1..Len(records) |-> Merge(records[i], updates)]

\* updateDNSRecord: records.map(record => matches ? {...record, ...updates} : record)
UpdateTransform(records, criteria, updates) ==
    [i \in 1..Len(records) |->
        IF Matches(records[i], criteria) THEN Merge(records[i], updates)
        ELSE records[i]]

\* mutant: the matching records are kept and the others dropped
DeleteTransformKeepsMatches(records, criteria) ==
    SelectSeq(records, LAMBDA r : Matches(r, criteria))

\* mutant: the surviving records are written in reverse order
DeleteTransformReversed(records, criteria) ==
    LET kept == SelectSeq(records, LAMBDA r : ~Matches(r, criteria))
    IN  [i \in 1..Len(kept) |-> kept[Len(kept) + 1 - i]]

\* deleteDNSRecord: records.filter(record => !matches)
DeleteTransform(records, criteria) ==
    SelectSeq(records, LAMBDA r : ~Matches(r, criteria))

-----------------------------------------------------------------------------
(* Tools: the arguments they turn into facade calls, the errors they rethrow *)

\* add-dns-record: the record built from the arguments
AddToolRecord(args) == DNSRecord(args.name, args.type, args.address, args.mxPref, args.ttl)

\* update-dns-record: criteria are always { name: findName, type: findType }
UpdateToolCriteria(args) ==
    Partial(Absent, args.findName, args.findType, Absent, Absent, Absent)

\* update-dns-record: an update field is set only for a truthy argument
UpdateToolUpdates(args) ==
    Partial(Absent,
            IF Truthy(args.newName) THEN args.newName ELSE Absent,
            Absent,
            IF Truthy(args.newAddress) THEN args.newAddress ELSE Absent,
            Absent,
            IF Truthy(args.newTtl) THEN args.newTtl ELSE Absent)

\* delete-dns-record: name and type, and the address when given
DeleteToolCriteria(args) ==
    Partial(Absent, args.name, args.type,
            IF Truthy(args.address) THEN args.address ELSE Absent, Absent, Absent)

ToolPrefix(kind) ==
    CASE kind = "add" -> "Failed to add DNS record: "
      [] kind = "update" -> "Failed to update DNS record: "
      [] kind = "delete" -> "Failed to delete DNS record: "
      [] kind = "get" -> "Failed to list DNS records: "
      [] kind = "register" -> "Failed to register domain: "
      [] kind = "template" -> "Failed to apply DNS template: "
      [] kind = "suggest" -> "Failed to suggest domains: "
      [] OTHER -> "Failed: "

\* mutant: the caught error is taken for something that is no Error
ToolErrorUnknown(kind, error) == PlainError(<<ToolPrefix(kind), "Unknown error">>)

\* catch (error) { throw new Error(`Failed to ...: ${error.message}`) }
ToolError(kind, error) == PlainError(<<ToolPrefix(kind)>> \o error.message)

\* the characters of a sequence put together as one string
RECURSIVE Cat(_)
Cat(s) == IF Len(s) = 0 THEN "" ELSE s[1] \o Cat(Tail(s))

\* String.prototype.replace with a string pattern: the first occurrence only
ReplaceFirst(s, pattern, by) ==
    IF \A i \in 1..Len(s) : s[i] # pattern THEN s
    ELSE LET i == CHOOSE k \in 1..Len(s) :
                      s[k] = pattern /\ \A j \in 1..(k - 1) : s[j] # pattern
         IN  [s EXCEPT ![i] = by]

\* value || fallback for an optional string
OrElse(value, fallback) == IF Truthy(value) THEN value ELSE fallback

\* apply-dns-template: the records of the template chosen
TemplateRecords(domain, template, customValue) ==
    CASE template = "google-workspace" ->
            <<DNSRecord("@", "MX", "aspmx.l.google.com", "1", Undefined),
              DNSRecord("@", "MX", "alt1.aspmx.l.google.com", "5", Undefined),
              DNSRecord("@", "MX", "alt2.aspmx.l.google.com", "5", Undefined),
              DNSRecord("@", "MX", "alt3.aspmx.l.google.com", "10", Undefined),
              DNSRecord("@", "MX", "alt4.aspmx.l.google.com", "10", Undefined),
              DNSRecord("@", "TXT", "v=spf1 include:_spf.google.com ~all", Undefined,
                        Undefined)>>
      [] template = "microsoft-365" ->
            <<DNSRecord("@", "MX",
                        Cat(ReplaceFirst(domain, ".", "-"))
                            \o ".mail.protection.outlook.com",
                        "0", Undefined),
              DNSRecord("@", "TXT", "v=spf1 include:spf.protection.outlook.com -all",
                        Undefined, Undefined),
              DNSRecord("autodiscover", "CNAME", "autodiscover.outlook.com", Undefined,
                        Undefined)>>
      [] template = "vercel" ->
            <<DNSRecord("@", "A", "76.76.21.21", Undefined, Undefined),
              DNSRecord("www", "CNAME", OrElse(customValue, "cname.vercel-dns.com"),
                        Undefined, Undefined)>>
      [] template = "netlify" ->
            <<DNSRecord("@", "A", "75.2.60.5", Undefined, Undefined),
              DNSRecord("www", "CNAME", OrElse(customValue, "apex-loadbalancer.netlify.com"),
                        Undefined, Undefined)>>
      [] template = "github-pages" ->
            <<DNSRecord("@", "A", "185.199.108.153", Undefined, Undefined),
              DNSRecord("@", "A", "185.199.109.153", Undefined, Undefined),
              DNSRecord("@", "A", "185.199.110.153", Undefined, Undefined),
              DNSRecord("@", "A", "185.199.111.153", Undefined, Undefined),
              DNSRecord("www", "CNAME", OrElse(customValue, "username") \o ".github.io",
                        Undefined, Undefined)>>
      [] OTHER -> <<>>

\* mutant: an existing record conflicts with a template record of the same name
ApplyTemplateByName(existingRecords, records) ==
    SelectSeq(existingRecords,
              LAMBDA existing :
                  ~\E i \in 1..Len(records) : existing.name = records[i].name)
        \o records

\* mutant: the existing records are all kept and the template records added
ApplyTemplateKeepsAll(existingRecords, records) == existingRecords \o records

\* apply-dns-template: [...nonConflictingRecords, ...records]
ApplyTemplate(existingRecords, records) ==
    SelectSeq(existingRecords,
              LAMBDA existing :
                  ~\E i \in 1..Len(records) :
                      /\ existing.name = records[i].name
                      /\ existing.type = records[i].type)
        \o records

UpperCase == <<"A", "B", "C", "D", "E", "F", "G", "H", "I", "J", "K", "L", "M", "N", "O",
               "P", "Q", "R", "S", "T", "U", "V", "W", "X", "Y", "Z">>

LowerCase == <<"a", "b", "c", "d", "e", "f", "g", "h", "i", "j", "k", "l", "m", "n", "o",
               "p", "q", "r", "s", "t", "u", "v", "w", "x", "y", "z">>

Digits == {"0", "1", "2", "3", "4", "5", "6", "7", "8", "9"}

\* String.prototype.toLowerCase
ToLowerCase(s) ==
    [i \in 1..Len(s) |->
        IF \E k \in 1..26 : UpperCase[k] = s[i]
        THEN LowerCase[CHOOSE k \in 1..26 : UpperCase[k] = s[i]]
        ELSE s[i]]

\* replace(/[^a-z0-9-]/g, '')
Sanitized(s) ==
    SelectSeq(s, LAMBDA ch : ch \in {LowerCase[k] : k \in 1..26} \cup Digits \cup {"-"})

\* suggest-domains: the suggestions, TLD by TLD
RECURSIVE Suggestions(_, _, _)
Suggestions(base, tlds, includeVariations) ==
    IF Len(tlds) = 0 THEN <<>>
    ELSE LET tld == tlds[1]
         IN  << base \o tld >>
               \o (IF includeVariations
                   THEN << <<"g", "e", "t">> \o base \o tld,
                           <<"m", "y">> \o base \o tld,
                           <<"t", "h", "e">> \o base \o tld,
                           <<"g", "o">> \o base \o tld,
                           base \o <<"a", "p", "p">> \o tld,
                           base \o <<"h", "q">> \o tld,
                           base \o <<"i", "o">> \o tld,
                           base \o <<"p", "r", "o">> \o tld,
                           base \o <<"-", "a", "p", "p">> \o tld,
                           base \o <<"-", "o", "n", "l", "i", "n", "e">> \o tld >>
                   ELSE <<>>)
               \o Suggestions(base, Tail(tlds), includeVariations)

\* const batchSize = 20
batchSize == 20

\* mutant: the element at the end position is taken too
SliceInclusive(seq, from, to) ==
    SubSeq(seq, from + 1, IF to + 1 < Len(seq) THEN to + 1 ELSE Len(seq))

\* Array.prototype.slice(from, to), positions counted from 0
Slice(seq, from, to) ==
    SubSeq(seq, from + 1, IF to < Len(seq) THEN to ELSE Len(seq))

\* suggest-domains: what is kept of a bulk check's results
BatchResults(checked) ==
    [i \in 1..Len(checked) |->
        [domain |-> checked[i].domain, available |-> checked[i].available,
         isPremium |-> checked[i].isPremium]]

\* const URI_PREFIX = 'namecheap://domains/availability/'
URI_PREFIX ==
    <<"n", "a", "m", "e", "c", "h", "e", "a", "p", ":", "/", "/", "d", "o", "m", "a",
      "i", "n", "s", "/", "a", "v", "a", "i", "l", "a", "b", "i", "l", "i", "t", "y", "/">>

\* matchesUri: uri.startsWith(URI_PREFIX)
MatchesUri(uri) ==
    Len(uri) >= Len(URI_PREFIX) /\ SubSeq(uri, 1, Len(URI_PREFIX)) = URI_PREFIX

\* extractDomains: uri.substring(URI_PREFIX.length)
ExtractDomains(uri) == SubSeq(uri, Len(URI_PREFIX) + 1, Len(uri))

WhiteSpace == {" ", "\t"}

\* String.prototype.trim
RECURSIVE Trim(_)
Trim(s) ==
    IF Len(s) = 0 THEN s
    ELSE IF s[1] \in WhiteSpace THEN Trim(Tail(s))
    ELSE IF s[Len(s)] \in WhiteSpace THEN Trim(SubSeq(s, 1, Len(s) - 1))
    ELSE s

\* mutant: the entries are not trimmed
ResourceDomainsUntrimmed(domainsStr) ==
    SelectSeq(Split(domainsStr, ","), LAMBDA d : Len(d) > 0)

\* domainsStr.split(',').map(d => d.trim()).filter(Boolean)
ResourceDomains(domainsStr) ==
    LET parts == Split(domainsStr, ",")
    IN  SelectSeq([i \in 1..Len(parts) |-> Trim(parts[i])], LAMBDA d : Len(d) > 0)

\* JSON.stringify of an object: its members between braces
JsonObject(value) == <<"{", value, "}">>

\* JSON.stringify of an array: its elements between brackets
JsonArray(values) == <<"[">> \o values \o <<"]">>

-----------------------------------------------------------------------------
(* Inputs *)

NoPartial == Partial(Absent, Absent, Absent, Absent, Absent, Absent)

\* the arguments of the tools apply-dns-template and suggest-domains and of the
\* availability resource
NoArgs ==
    [template |-> "", customValue |-> Undefined, baseKeyword |-> <<>>, tlds |-> <<>>,
     includeVariations |-> FALSE, uri |-> <<>>]

Operation(kind, via, domain, record, criteria, updates) ==
    [kind |-> kind, via |-> via, domain |-> domain, record |-> record,
     criteria |-> criteria, updates |-> updates, records |-> <<>>, domains |-> <<>>,
     args |-> NoArgs]

NoOp == Operation("none", "none", <<>>, NoPartial, NoPartial, NoPartial)

AddToolArgs ==
    { [name |-> "b", type |-> "A", address |-> "9.9.9.9", mxPref |-> Undefined,
       ttl |-> Undefined],
      [name |-> "a", type |-> "A", address |-> "1.1.1.1", mxPref |-> Undefined,
       ttl |-> Undefined],
      [name |-> "a", type |-> "MX", address |-> "m", mxPref |-> "0", ttl |-> ""] }

UpdateToolArgs ==
    { [findName |-> "a", findType |-> "A", newAddress |-> a, newName |-> Undefined,
       newTtl |-> Undefined] : a \in {"9.9.9.9", ""} }

DeleteToolArgs ==
    { [name |-> "a", type |-> "A", address |-> a] : a \in {Undefined, "1.1.1.1"} }

\* criteria of direct calls; the tools add { name: "a", type: "A" }
CriteriaInputs ==
    { Partial(Absent, "b", "MX", Absent, Absent, Absent),
      Partial("h2", Absent, Absent, Absent, Absent, Absent),
      NoPartial }

\* updates of direct calls; the tools add { address: "9.9.9.9" } alone and {}
UpdatesInputs ==
    { Partial(Absent, Absent, Absent, "9.9.9.9", Absent, "300"),
      Partial(Absent, "b", Absent, Absent, Absent, "") }

DnsCalls ==
    { Operation("add", "tool", <<>>, AddToolRecord(a), NoPartial, NoPartial) :
          a \in AddToolArgs }
    \cup { Operation("update", "tool", <<>>, NoPartial, UpdateToolCriteria(a),
                     UpdateToolUpdates(a)) : a \in UpdateToolArgs }
    \cup { Operation("update", "client", <<>>, NoPartial, k, u) :
              k \in CriteriaInputs, u \in UpdatesInputs }
    \cup { Operation("delete", "tool", <<>>, NoPartial, DeleteToolCriteria(a), NoPartial) :
              a \in DeleteToolArgs }
    \cup { Operation("delete", "client", <<>>, NoPartial, k, NoPartial) :
              k \in CriteriaInputs }
    \cup { Operation("get", "client", <<>>, NoPartial, NoPartial, NoPartial),
           Operation("resave", "client", <<>>, NoPartial, NoPartial, NoPartial) }

RegisterCalls ==
    { Operation("register", v, <<>>, NoPartial, NoPartial, NoPartial) :
          v \in {"tool", "client"} }

\* calls on the second domain
FewCalls ==
    { o \in DnsCalls \cup RegisterCalls :
        \/ o.kind = "register"
        \/ o.kind = "add" /\ o.record.address = "9.9.9.9" }

Operations ==
    { [o EXCEPT !.domain = <<"a", ".", "c">>] : o \in DnsCalls \cup RegisterCalls }
    \cup { [o EXCEPT !.domain = <<"a", ".", "c", ".", "u">>] : o \in FewCalls }

\* operations that run while another operation is in flight
OverlappingOperations ==
    { o \in Operations :
        /\ o.domain = <<"a", ".", "c">>
        /\ \/ o.kind = "register" /\ o.via = "tool"
           \/ o.kind = "add" /\ o.record.address = "9.9.9.9"
           \/ /\ o.kind \in {"update", "delete"}
              /\ o.via = "tool"
              /\ o.criteria.address = Absent
              /\ o.kind = "update" => o.updates.address = "9.9.9.9" }

\* operations that start while another operation is in flight: the overlapping ones
\* and an add on the second domain
JoiningOperations ==
    OverlappingOperations
        \cup { o \in Operations : o.domain = <<"a", ".", "c", ".", "u">> /\ o.kind = "add" }

\* domain strings handed to getDNSRecords / setDNSRecords: one and two dots, no dot,
\* a dot at the end, a dot at the start
DomainInputs ==
    { <<"a", ".", "c">>, <<"a", ".", "c", ".", "u">>, <<"a", "c", ".", "u">>,
      <<"a">>, <<"a", ".">>, <<".", "c">> }

\* record sequences handed to setDNSRecords
RecordInputs ==
    { <<>>,
      <<DNSRecord("a", "A", "1.1.1.1", Undefined, Undefined)>>,
      <<DNSRecord("a", "MX", "m", "10", "300"),
        DNSRecord("b", "A", "2.2.2.2", "", Undefined)>>,
      <<DNSRecord("a", "MX", "m", "0", ""),
        DNSRecord("a", "A", "1.1.1.1", Undefined, "1800"),
        DNSRecord("b", "TXT", "t", Undefined, Undefined)>> }

\* domain lists handed to checkDomains
DomainListInputs ==
    { << <<"a", ".", "c">> >>,
      << <<"a", ".", "c">>, <<"p", ".", "c">> >>,
      << <<"p", ".", "c">>, <<"a", ".", "c">> >>,
      << <<"a", ".", "c", ".", "u">>, <<"a", ".", "c", ".", "u">> >>,
      << <<"a", ".", "c">>, <<"a", ".", "c", ".", "u">>, <<"p", ".", "c">> >> }

\* single facade calls: getDNSRecords, setDNSRecords and checkDomains
DirectCalls ==
    { Operation("get", "client", d, NoPartial, NoPartial, NoPartial) : d \in DomainInputs }
    \cup { [Operation("set", "client", d, NoPartial, NoPartial, NoPartial)
              EXCEPT !.records = r] :
              d \in { <<"a", ".", "c">>, <<"a", ".", "c", ".", "u">>, <<"a">> },
              r \in RecordInputs }
    \cup { [Operation("checkBulk", "client", <<>>, NoPartial, NoPartial, NoPartial)
              EXCEPT !.domains = l] : l \in DomainListInputs }

\* calls of apply-dns-template
TemplateCalls ==
    { [Operation("template", "tool", d, NoPartial, NoPartial, NoPartial)
          EXCEPT !.args = [NoArgs EXCEPT !.template = t[1], !.customValue = t[2]]] :
          d \in { <<"a", ".", "c">> },
          t \in { <<"google-workspace", Undefined>>, <<"microsoft-365", Undefined>>,
                  <<"vercel", Undefined>>, <<"vercel", "app.example">>,
                  <<"netlify", "">>, <<"github-pages", Undefined>>,
                  <<"github-pages", "me">> } }
    \cup { [Operation("template", "tool", <<"a", ".", "c", ".", "u">>, NoPartial, NoPartial,
                      NoPartial)
              EXCEPT !.args = [NoArgs EXCEPT !.template = "microsoft-365"]] }

\* tlds.default(['.com', '.io', '.net', '.org'])
DefaultTlds ==
    << <<".", "c", "o", "m">>, <<".", "i", "o">>, <<".", "n", "e", "t">>,
       <<".", "o", "r", "g">> >>

\* a list of n different TLDs
ManyTlds(n) == [i \in 1..n |-> <<".", "t", LowerCase[i]>>]

\* calls of suggest-domains: 44, 22, 4, 0, 20, 21 suggestions and one
SuggestCalls ==
    { [Operation("suggest", "tool", <<>>, NoPartial, NoPartial, NoPartial)
          EXCEPT !.args = [NoArgs EXCEPT !.baseKeyword = a[1], !.tlds = a[2],
                                         !.includeVariations = a[3]]] :
          a \in { << <<"X", " ", "1">>, DefaultTlds, TRUE >>,
                  << <<"A">>, << <<".", "c">>, <<".", "c", ".", "u">> >>, TRUE >>,
                  << <<"a">>, DefaultTlds, FALSE >>,
                  << <<"a">>, <<>>, TRUE >>,
                  << <<"a">>, ManyTlds(20), FALSE >>,
                  << <<"a">>, ManyTlds(21), FALSE >>,
                  << <<"!">>, << <<".", "c">> >>, FALSE >> } }

\* what follows the prefix in the URIs read: one domain, two, three with blanks and
\* empty entries, none at all, blanks and commas only, a comma at the end
UriDomainParts ==
    { <<"a", ".", "c">>,
      <<"a", ".", "c", ",", "p", ".", "c">>,
      <<" ", "a", ".", "c", " ", ",", " ", ",", "p", ".", "c", ",", "\t", "a", ".", "c",
        ".", "u">>,
      <<>>,
      <<" ", ",", ",", " ">>,
      <<"p", ".", "c", ",">>,
      <<",", " ", "a", ".", "c", ".", "u", " ">> }

\* reads of the availability resource, and of a URI that is no such resource
ResourceCalls ==
    { [Operation("resource", "resource", <<>>, NoPartial, NoPartial, NoPartial)
          EXCEPT !.args = [NoArgs EXCEPT !.uri = u]] :
          u \in { URI_PREFIX \o part : part \in UriDomainParts }
                  \cup { <<"n", "a", "m", "e", "c", "h", "e", "a", "p", ":", "/", "/", "x">> } }

\* add, update and delete as the tools of the main specification call them
DnsToolCalls ==
    { [o EXCEPT !.domain = <<"a", ".", "c">>] :
        o \in { x \in DnsCalls :
                  /\ x.via = "tool"
                  /\ x.kind = "add" => x.record.address = "9.9.9.9"
                  /\ x.kind = "update" => x.updates.address = "9.9.9.9"
                  /\ x.kind = "delete" => x.criteria.address = Absent } }

ToolCalls == TemplateCalls \cup SuggestCalls \cup ResourceCalls \cup DnsToolCalls

\* zones that hold records of the names and types the templates write
InitToolZones ==
    { <<Host("@", "A", "1.2.3.4", Undefined, Undefined),
        Host("www", "CNAME", "old.example", Undefined, "300"),
        Host("@", "TXT", "t", Undefined, Undefined),
        Host("a", "A", "1.1.1.1", Undefined, Undefined)>>,
      <<Host("a", "A", "1.1.1.1", Undefined, Undefined),
        Host("@", "MX", "m", "10", Undefined),
        Host("@", "A", "1.2.3.4", Undefined, Undefined),
        Host("www", "A", "1.2.3.4", Undefined, Undefined),
        Host("@", "A", "5.6.7.8", Undefined, "1800")>> }

\* the zone of a.c at the start; the empty zone is reached by a delete of everything
InitZones ==
    { <<Host("a", "A", "1.1.1.1", Undefined, Undefined),
        Host("b", "A", "2.2.2.2", Undefined, "1800")>>,
      <<Host("a", "A", "1.1.1.1", Undefined, Undefined),
        Host("a", "MX", "m", "0", Undefined)>>,
      <<Host("a", "A", "1.1.1.1", Undefined, Undefined),
        Host("a", "A", "1.1.1.1", Undefined, Undefined),
        Host("b", "A", "2.2.2.2", Undefined, "1800")>> }

-----------------------------------------------------------------------------
(* What a zone holds, whatever the identifiers and the form of an unset field *)

Content(r) ==
    [name |-> r.name, type |-> r.type, address |-> r.address,
     mxPref |-> IF Truthy(r.mxPref) THEN r.mxPref ELSE Undefined,
     ttl |-> IF Truthy(r.ttl) THEN r.ttl ELSE Undefined]

ContentSeq(records) == [i \in 1..Len(records) |-> Content(records[i])]

HostContent(h) ==
    [name |-> h.Name, type |-> h.Type, address |-> h.Address, mxPref |-> h.MXPref,
     ttl |-> h.TTL]

ZoneContent(hosts) == [i \in 1..Len(hosts) |-> HostContent(hosts[i])]

Range(seq) == { seq[i] : i \in 1..Len(seq) }

KeyOf(domain) == <<SldOf(domain), TldOf(domain)>>

\* the records an operation passes to setDNSRecords, from the records it read
Transformed(o, records) ==
    CASE o.kind = "add" -> AddTransform(records, o.record)
      [] o.kind = "update" -> UpdateTransform(records, o.criteria, o.updates)
      [] o.kind = "delete" -> DeleteTransform(records, o.criteria)
      [] o.kind = "set" -> o.records
      [] o.kind = "template" ->
            ApplyTemplate(records,
                          TemplateRecords(o.domain, o.args.template, o.args.customValue))
      [] OTHER -> records

\* an operation applied to a zone's content on its own, with no gateway in between
Sequentially(o, content) ==
    LET records == [i \in 1..Len(content) |->
                       [hostId |-> HostIds[i], name |-> content[i].name,
                        type |-> content[i].type, address |-> content[i].address,
                        mxPref |-> content[i].mxPref, ttl |-> content[i].ttl]]
    IN  ContentSeq(Transformed(o, records))

-----------------------------------------------------------------------------
(* Initial state *)

\* the locals of suggest-domains and of the resource: the domain names to check, the
\* loop index and the results gathered
NoLocal == [names |-> <<>>, i |-> 0, results |-> <<>>]

NoResult == [status |-> "none", error |-> NoError, toolError |-> NoError, value |-> <<>>]

Init ==
    /\ zone \in { [k \in ZoneKeys |->
                     IF k = KeyOf(<<"a", ".", "c">>) THEN z
                     ELSE <<Host("b", "A", "2.2.2.2", Undefined, "1800")>>] :
                  z \in InitZones }
    /\ registered = { <<"a", ".", "c", ".", "u">> }
    /\ pc = [c \in Clients |-> "idle"]
    /\ op = [c \in Clients |-> NoOp]
    /\ readSet = [c \in Clients |-> <<>>]
    /\ calls = [c \in Clients |-> <<>>]
    /\ lastResp = [c \in Clients |-> NoResponse]
    /\ result = [c \in Clients |-> NoResult]
    /\ stale = [c \in Clients |-> FALSE]
    /\ lastWriter = [k \in ZoneKeys |-> "none"]
    /\ expected = [k \in ZoneKeys |-> ZoneContent(zone[k])]
    /\ failures = 0
    /\ overlapped = FALSE
    /\ opsStarted = 0
    /\ client = NewClient(CHOOSE cfg \in Configs : ~cfg.sandbox)
    /\ outstanding = [c \in Clients |-> 0]
    /\ local = [c \in Clients |-> NoLocal]
    /\ history = [k \in ZoneKeys |-> <<>>]

-----------------------------------------------------------------------------
(* Operations, one step per gateway call *)

\* the caller is between the first request of an operation and its outcome
InFlight(c) == pc[c] \notin {"idle", "done"}

\* how an operation ends for its caller: a tool rethrows a plain Error
Outcome(o, status, error, value) ==
    [status |-> status, error |-> error,
     toolError |-> IF status = "error" /\ o.via = "tool"
                   THEN ToolError(o.kind, error) ELSE NoError,
     value |-> value]

\* a caller invokes a tool or a client method
Start(c) ==
    /\ pc[c] = "idle"
    /\ opsStarted < MaxOps
    /\ c = "c2" => InFlight("c1")
    /\ \A other \in Clients : InFlight(other) => op[other] \in OverlappingOperations
    /\ \E o \in IF \E other \in Clients : InFlight(other)
               THEN JoiningOperations ELSE Operations :
        /\ op' = [op EXCEPT ![c] = o]
        /\ pc' = [pc EXCEPT ![c] =
                    IF o.kind # "register" THEN "read"
                    ELSE IF o.via = "tool" THEN "check" ELSE "create"]
    /\ readSet' = [readSet EXCEPT ![c] = <<>>]
    /\ calls' = [calls EXCEPT ![c] = <<>>]
    /\ lastResp' = [lastResp EXCEPT ![c] = NoResponse]
    /\ result' = [result EXCEPT ![c] = NoResult]
    /\ stale' = [stale EXCEPT ![c] = FALSE]
    /\ overlapped' = (overlapped \/ \E other \in Clients : InFlight(other))
    /\ opsStarted' = opsStarted + 1
    /\ UNCHANGED <<zone, registered, lastWriter, expected, failures>>
    /\ UNCHANGED toolVars

\* getDNSRecords: the getHosts call and the mapping of its result
ReadStep(c) ==
    /\ pc[c] = "read"
    /\ LET params == GetHostsParams(op[c].domain)
       IN  \E resp \in RemoteGetHostsReplies(params) \cup FailureReplies \cup NodelessReplies :
             LET out == MakeRequest(resp)
                 records == GetDNSRecordsResult(out.response.body)
             IN  /\ calls' = [calls EXCEPT ![c] =
                                Append(@, Request("namecheap.domains.dns.getHosts", params))]
                 /\ lastResp' = [lastResp EXCEPT ![c] = resp]
                 /\ failures' = IF \/ out.threw
                                   \/ Len(out.response.body.DomainDNSGetHostsResult) = 0
                                THEN failures + 1 ELSE failures
                 /\ IF out.threw
                    THEN /\ pc' = [pc EXCEPT ![c] = "done"]
                         /\ result' = [result EXCEPT ![c] =
                                         Outcome(op[c], "error", out.error, <<>>)]
                         /\ UNCHANGED readSet
                    ELSE IF Len(out.response.body.DomainDNSGetHostsResult) = 0
                    THEN /\ pc' = [pc EXCEPT ![c] = "done"]
                         /\ result' = [result EXCEPT ![c] =
                                         Outcome(op[c], "error", TypeError, <<>>)]
                         /\ UNCHANGED readSet
                    ELSE /\ readSet' = [readSet EXCEPT ![c] = records]
                         /\ IF op[c].kind = "get"
                            THEN /\ pc' = [pc EXCEPT ![c] = "done"]
                                 /\ result' = [result EXCEPT ![c] =
                                                 Outcome(op[c], "ok", NoError, records)]
                            ELSE /\ pc' = [pc EXCEPT ![c] = "write"]
                                 /\ UNCHANGED result
    /\ UNCHANGED <<zone, registered, op, stale, lastWriter, expected, overlapped, opsStarted>>
    /\ UNCHANGED toolVars

\* setDNSRecords with the records computed from the read: the setHosts call
WriteStep(c) ==
    /\ pc[c] = "write"
    /\ LET key == KeyOf(op[c].domain)
           params == SetHostsParams(op[c].domain, Transformed(op[c], readSet[c]))
       IN  \E resp \in RemoteSetHostsReplies(params) \cup FailureReplies :
             LET out == MakeRequest(resp)
             IN  /\ calls' = [calls EXCEPT ![c] =
                                Append(@, Request("namecheap.domains.dns.setHosts", params))]
                 /\ lastResp' = [lastResp EXCEPT ![c] = resp]
                 /\ failures' = IF out.threw THEN failures + 1 ELSE failures
                 /\ zone' = IF Applied(resp) THEN RemoteSetHosts(params) ELSE zone
                 /\ lastWriter' = IF Applied(resp) /\ key \in ZoneKeys
                                  THEN [lastWriter EXCEPT ![key] = c]
                                  ELSE lastWriter
                 /\ stale' = [o \in Clients |->
                                IF /\ o # c
                                   /\ Applied(resp)
                                   /\ pc[o] = "write"
                                   /\ KeyOf(op[o].domain) = key
                                THEN TRUE ELSE stale[o]]
                 /\ expected' = IF overlapped \/ failures' > 0
                                THEN [k \in ZoneKeys |-> ZoneContent(zone'[k])]
                                ELSE IF key \notin ZoneKeys THEN expected
                                ELSE [expected EXCEPT ![key] = Sequentially(op[c], @)]
                 /\ pc' = [pc EXCEPT ![c] = "done"]
                 /\ result' = [result EXCEPT ![c] =
                                 IF out.threw THEN Outcome(op[c], "error", out.error, <<>>)
                                 ELSE Outcome(op[c], "ok", NoError, <<>>)]
    /\ UNCHANGED <<registered, op, readSet, overlapped, opsStarted>>
    /\ UNCHANGED toolVars

\* register-domain tool: checkDomain first, and no create for an unavailable domain
CheckStep(c) ==
    /\ pc[c] = "check"
    /\ LET params == (<<"DomainList", 0>> :> op[c].domain)
       IN  \E resp \in {HttpResponse("OK", <<>>, RemoteCheck(params[<<"DomainList", 0>>]))}
                          \cup FailureReplies \cup NodelessReplies :
             LET out == MakeRequest(resp)
                 availability == CheckDomainResult(out.response.body)
             IN  /\ calls' = [calls EXCEPT ![c] =
                                Append(@, Request("namecheap.domains.check", params))]
                 /\ lastResp' = [lastResp EXCEPT ![c] = resp]
                 /\ failures' = IF \/ out.threw
                                   \/ Len(out.response.body.DomainCheckResult) = 0
                                THEN failures + 1 ELSE failures
                 /\ IF out.threw
                    THEN /\ pc' = [pc EXCEPT ![c] = "done"]
                         /\ result' = [result EXCEPT ![c] =
                                         Outcome(op[c], "error", out.error, <<>>)]
                    ELSE IF Len(out.response.body.DomainCheckResult) = 0
                    THEN /\ pc' = [pc EXCEPT ![c] = "done"]
                         /\ result' = [result EXCEPT ![c] =
                                         Outcome(op[c], "error", TypeError, <<>>)]
                    ELSE IF ~availability.available
                    THEN /\ pc' = [pc EXCEPT ![c] = "done"]
                         /\ result' = [result EXCEPT ![c] =
                                         Outcome(op[c], "notAvailable", NoError, <<>>)]
                    ELSE /\ pc' = [pc EXCEPT ![c] = "create"]
                         /\ UNCHANGED result
    /\ UNCHANGED <<zone, registered, op, readSet, stale, lastWriter, expected, overlapped,
                   opsStarted>>
    /\ UNCHANGED toolVars

\* registerDomain of the client: the create call and its result
CreateStep(c) ==
    /\ pc[c] = "create"
    /\ LET params == (<<"DomainName", 0>> :> op[c].domain)
       IN  \E resp \in RemoteCreateReplies(op[c].domain) \cup FailureReplies
                          \cup NodelessReplies :
             LET out == MakeRequest(resp)
             IN  /\ calls' = [calls EXCEPT ![c] =
                                Append(@, Request("namecheap.domains.create", params))]
                 /\ lastResp' = [lastResp EXCEPT ![c] = resp]
                 /\ failures' = IF \/ out.threw
                                   \/ Len(out.response.body.DomainCreateResult) = 0
                                THEN failures + 1 ELSE failures
                 /\ registered' = IF Applied(resp) THEN registered \cup {op[c].domain}
                                  ELSE registered
                 /\ pc' = [pc EXCEPT ![c] = "done"]
                 /\ result' = [result EXCEPT ![c] =
                                 IF out.threw THEN Outcome(op[c], "error", out.error, <<>>)
                                 ELSE IF Len(out.response.body.DomainCreateResult) = 0
                                 THEN Outcome(op[c], "error", TypeError, <<>>)
                                 ELSE Outcome(op[c], "ok", NoError,
                                              RegisterDomainResult(out.response.body))]
    /\ UNCHANGED <<zone, op, readSet, stale, lastWriter, expected, overlapped, opsStarted>>
    /\ UNCHANGED toolVars

\* the caller has its outcome; nothing of the operation is kept
Return(c) ==
    /\ pc[c] = "done"
    /\ pc' = [pc EXCEPT ![c] = "idle"]
    /\ op' = [op EXCEPT ![c] = NoOp]
    /\ readSet' = [readSet EXCEPT ![c] = <<>>]
    /\ calls' = [calls EXCEPT ![c] = <<>>]
    /\ lastResp' = [lastResp EXCEPT ![c] = NoResponse]
    /\ result' = [result EXCEPT ![c] = NoResult]
    /\ stale' = [stale EXCEPT ![c] = FALSE]
    /\ lastWriter' = [k \in ZoneKeys |-> IF lastWriter[k] = c THEN "none" ELSE lastWriter[k]]
    /\ local' = [local EXCEPT ![c] = NoLocal]
    /\ UNCHANGED <<zone, registered, expected, failures, overlapped, opsStarted, client,
                   outstanding, history>>

Next ==
    \E c \in Clients :
        \/ Start(c)
        \/ ReadStep(c)
        \/ WriteStep(c)
        \/ CheckStep(c)
        \/ CreateStep(c)
        \/ Return(c)

Spec == Init /\ [][Next]_vars

-----------------------------------------------------------------------------
(* Single facade calls on a wider range of arguments *)

InitCalls ==
    /\ zone \in { [k \in ZoneKeys |->
                     IF k = KeyOf(<<"a", ".", "c">>) THEN z
                     ELSE <<Host("b", "A", "2.2.2.2", Undefined, "1800")>>] :
                  z \in InitZones }
    /\ registered \in { { <<"a", ".", "c", ".", "u">> },
                        { <<"a", ".", "c", ".", "u">>, <<"p", ".", "c">> } }
    /\ pc = [c \in Clients |-> "idle"]
    /\ op = [c \in Clients |-> NoOp]
    /\ readSet = [c \in Clients |-> <<>>]
    /\ calls = [c \in Clients |-> <<>>]
    /\ lastResp = [c \in Clients |-> NoResponse]
    /\ result = [c \in Clients |-> NoResult]
    /\ stale = [c \in Clients |-> FALSE]
    /\ lastWriter = [k \in ZoneKeys |-> "none"]
    /\ expected = [k \in ZoneKeys |-> ZoneContent(zone[k])]
    /\ failures = 0
    /\ overlapped = FALSE
    /\ opsStarted = 0
    /\ client \in { NewClient(cfg) : cfg \in Configs }
    /\ outstanding = [c \in Clients |-> 0]
    /\ local = [c \in Clients |-> NoLocal]
    /\ history = [k \in ZoneKeys |-> <<>>]

\* the caller invokes getDNSRecords, setDNSRecords or checkDomains; the second
\* caller reads a zone once the first has its outcome
StartCall(c) ==
    /\ pc[c] = "idle"
    /\ opsStarted < MaxOps
    /\ c = "c2" => (pc["c1"] = "done" /\ op["c1"].kind \in {"get", "set"})
    /\ \E o \in DirectCalls :
        /\ c = "c2" => o.kind = "get"
        /\ op' = [op EXCEPT ![c] = o]
        /\ pc' = [pc EXCEPT ![c] =
                    CASE o.kind = "get" -> "read"
                      [] o.kind = "set" -> "write"
                      [] OTHER -> "bulk"]
    /\ readSet' = [readSet EXCEPT ![c] = <<>>]
    /\ calls' = [calls EXCEPT ![c] = <<>>]
    /\ lastResp' = [lastResp EXCEPT ![c] = NoResponse]
    /\ result' = [result EXCEPT ![c] = NoResult]
    /\ stale' = [stale EXCEPT ![c] = FALSE]
    /\ opsStarted' = opsStarted + 1
    /\ UNCHANGED <<zone, registered, lastWriter, expected, failures, overlapped>>
    /\ UNCHANGED toolVars

\* checkDomains: the check call with the joined list and the mapping of its results
BulkStep(c) ==
    /\ pc[c] = "bulk"
    /\ LET params == CheckDomainsParams(op[c].domains)
       IN  \E resp \in {HttpResponse("OK", <<>>, RemoteCheck(params[<<"DomainList", 0>>]))}
                          \cup FailureReplies \cup NodelessReplies :
             LET out == MakeRequest(resp)
                 missing == Len(out.response.body.DomainCheckResult) = 0
             IN  /\ calls' = [calls EXCEPT ![c] =
                                Append(@, Request("namecheap.domains.check", params))]
                 /\ lastResp' = [lastResp EXCEPT ![c] = resp]
                 /\ failures' = IF out.threw \/ missing THEN failures + 1 ELSE failures
                 /\ pc' = [pc EXCEPT ![c] = "done"]
                 /\ result' = [result EXCEPT ![c] =
                                 IF out.threw THEN Outcome(op[c], "error", out.error, <<>>)
                                 ELSE IF missing
                                 THEN Outcome(op[c], "error", TypeError, <<>>)
                                 ELSE Outcome(op[c], "ok", NoError,
                                              CheckDomainsResult(out.response.body))]
    /\ UNCHANGED <<zone, registered, op, readSet, stale, lastWriter, expected, overlapped,
                   opsStarted>>
    /\ UNCHANGED toolVars

NextCalls ==
    \E c \in Clients :
        \/ StartCall(c)
        \/ ReadStep(c)
        \/ WriteStep(c)
        \/ BulkStep(c)
        \/ Return(c)

SpecCalls == InitCalls /\ [][NextCalls]_vars

-----------------------------------------------------------------------------
(* Tools and the resource, one step per request sent and per reply received *)

MaxOutstanding == 2

InitTools ==
    /\ zone \in { [k \in ZoneKeys |->
                     IF k = KeyOf(<<"a", ".", "c">>) THEN z
                     ELSE <<Host("@", "MX", "m", "10", Undefined)>>] :
                  z \in InitToolZones }
    /\ registered = { <<"a", ".", "c", ".", "u">>, <<"p", ".", "c">> }
    /\ pc = [c \in Clients |-> "idle"]
    /\ op = [c \in Clients |-> NoOp]
    /\ readSet = [c \in Clients |-> <<>>]
    /\ calls = [c \in Clients |-> <<>>]
    /\ lastResp = [c \in Clients |-> NoResponse]
    /\ result = [c \in Clients |-> NoResult]
    /\ stale = [c \in Clients |-> FALSE]
    /\ lastWriter = [k \in ZoneKeys |-> "none"]
    /\ expected = [k \in ZoneKeys |-> ZoneContent(zone[k])]
    /\ failures = 0
    /\ overlapped = FALSE
    /\ opsStarted = 0
    /\ client = NewClient(CHOOSE cfg \in Configs : cfg.sandbox)
    /\ outstanding = [c \in Clients |-> 0]
    /\ local = [c \in Clients |-> NoLocal]
    /\ history = [k \in ZoneKeys |-> <<>>]

\* the domain names a tool or the resource is going to check
NamesOf(o) ==
    CASE o.kind = "suggest" ->
            Suggestions(Sanitized(ToLowerCase(o.args.baseKeyword)), o.args.tlds,
                        o.args.includeVariations)
      [] o.kind = "resource" /\ MatchesUri(o.args.uri) ->
            ResourceDomains(ExtractDomains(o.args.uri))
      [] OTHER -> <<>>

\* a tool is executed or the resource is read, up to its first gateway call
StartTool(c) ==
    /\ c = "c1"
    /\ pc[c] = "idle"
    /\ opsStarted < MaxOps
    /\ \E o \in ToolCalls :
        LET names == NamesOf(o)
        IN  /\ op' = [op EXCEPT ![c] = o]
            /\ local' = [local EXCEPT ![c] = [names |-> names, i |-> 0, results |-> <<>>]]
            /\ pc' = [pc EXCEPT ![c] =
                        CASE o.kind = "suggest" ->
                                IF 0 < Len(names) THEN "batch" ELSE "done"
                          [] o.kind = "resource" ->
                                IF ~MatchesUri(o.args.uri) \/ Len(names) = 0 THEN "done"
                                ELSE IF Len(names) = 1 THEN "check"
                                ELSE "bulk"
                          [] OTHER -> "read"]
            /\ result' = [result EXCEPT ![c] =
                            CASE o.kind = "suggest" /\ Len(names) = 0 ->
                                    Outcome(o, "ok", NoError, <<>>)
                              [] o.kind = "resource" /\ ~MatchesUri(o.args.uri) ->
                                    Outcome(o, "error",
                                            PlainError(<<"Unknown resource: ",
                                                         Cat(o.args.uri)>>), <<>>)
                              [] o.kind = "resource" /\ MatchesUri(o.args.uri)
                                    /\ Len(names) = 0 ->
                                    Outcome(o, "error",
                                            PlainError(<<"No domain specified in availability URI">>),
                                            <<>>)
                              [] OTHER -> NoResult]
    /\ readSet' = [readSet EXCEPT ![c] = <<>>]
    /\ calls' = [calls EXCEPT ![c] = <<>>]
    /\ lastResp' = [lastResp EXCEPT ![c] = NoResponse]
    /\ outstanding' = [outstanding EXCEPT ![c] = 0]
    /\ opsStarted' = opsStarted + 1
    /\ UNCHANGED <<zone, registered, stale, lastWriter, expected, failures, overlapped,
                   client, history>>

\* the request the operation of c makes at its position
NextRequest(c) ==
    CASE pc[c] = "read" ->
            Request("namecheap.domains.dns.getHosts", GetHostsParams(op[c].domain))
      [] pc[c] = "write" ->
            Request("namecheap.domains.dns.setHosts",
                    SetHostsParams(op[c].domain, Transformed(op[c], readSet[c])))
      [] pc[c] = "check" ->
            Request("namecheap.domains.check", (<<"DomainList", 0>> :> local[c].names[1]))
      [] pc[c] = "bulk" ->
            Request("namecheap.domains.check", CheckDomainsParams(local[c].names))
      [] pc[c] = "batch" ->
            Request("namecheap.domains.check",
                    CheckDomainsParams(Slice(local[c].names, local[c].i,
                                             local[c].i + batchSize)))

\* mutant: the call is made without waiting for the one before
AwaitedNever(pending) == TRUE

\* await: the operation goes on when the call it made has returned
Awaited(pending) == pending = 0

\* makeRequest up to axios.post: the request leaves
SendStep(c) ==
    /\ pc[c] \in {"read", "write", "check", "bulk", "batch"}
    /\ Awaited(outstanding[c])
    /\ outstanding[c] < MaxOutstanding
    /\ calls' = [calls EXCEPT ![c] = Append(@, NextRequest(c))]
    /\ outstanding' = [outstanding EXCEPT ![c] = @ + 1]
    /\ UNCHANGED <<zone, registered, pc, op, readSet, lastResp, result, stale, lastWriter,
                   expected, failures, overlapped, opsStarted, client, local, history>>

\* the request of c that has no reply yet
Pending(c) == calls[c][Len(calls[c])]

\* getDNSRecords from the reply on
ReceiveRead(c) ==
    /\ pc[c] = "read"
    /\ outstanding[c] > 0
    /\ \E resp \in RemoteGetHostsReplies(Pending(c).params) \cup FailureReplies
                       \cup NodelessReplies :
          LET out == MakeRequest(resp)
              missing == Len(out.response.body.DomainDNSGetHostsResult) = 0
          IN  /\ lastResp' = [lastResp EXCEPT ![c] = resp]
              /\ failures' = IF out.threw \/ missing THEN failures + 1 ELSE failures
              /\ IF out.threw \/ missing
                 THEN /\ pc' = [pc EXCEPT ![c] = "done"]
                      /\ result' = [result EXCEPT ![c] =
                                      Outcome(op[c], "error",
                                              IF out.threw THEN out.error ELSE TypeError,
                                              <<>>)]
                      /\ UNCHANGED readSet
                 ELSE /\ readSet' = [readSet EXCEPT ![c] =
                                       GetDNSRecordsResult(out.response.body)]
                      /\ pc' = [pc EXCEPT ![c] = "write"]
                      /\ UNCHANGED result
    /\ outstanding' = [outstanding EXCEPT ![c] = @ - 1]
    /\ UNCHANGED <<zone, registered, op, calls, stale, lastWriter, expected, overlapped,
                   opsStarted, client, local, history>>

\* setDNSRecords from the reply on
ReceiveWrite(c) ==
    /\ pc[c] = "write"
    /\ outstanding[c] > 0
    /\ LET params == Pending(c).params
           key == ZoneOf(params)
       IN  \E resp \in RemoteSetHostsReplies(params) \cup FailureReplies :
             LET out == MakeRequest(resp)
             IN  /\ lastResp' = [lastResp EXCEPT ![c] = resp]
                 /\ failures' = IF out.threw THEN failures + 1 ELSE failures
                 /\ zone' = IF Applied(resp) THEN RemoteSetHosts(params) ELSE zone
                 /\ history' = IF Applied(resp) /\ key \in DOMAIN zone
                               THEN [history EXCEPT ![key] =
                                       Append(@, [op |-> op[c],
                                                  content |->
                                                      ZoneContent(HostsFromParams(params))])]
                               ELSE history
                 /\ pc' = [pc EXCEPT ![c] = "done"]
                 /\ result' = [result EXCEPT ![c] =
                                 IF out.threw THEN Outcome(op[c], "error", out.error, <<>>)
                                 ELSE Outcome(op[c], "ok", NoError, <<>>)]
    /\ outstanding' = [outstanding EXCEPT ![c] = @ - 1]
    /\ UNCHANGED <<registered, op, readSet, calls, stale, lastWriter, expected, overlapped,
                   opsStarted, client, local>>

\* the resource, one domain: checkDomain from the reply on, and the result as JSON
ReceiveCheck(c) ==
    /\ pc[c] = "check"
    /\ outstanding[c] > 0
    /\ \E resp \in {HttpResponse("OK", <<>>,
                                  RemoteCheck(Pending(c).params[<<"DomainList", 0>>]))}
                       \cup FailureReplies \cup NodelessReplies :
          LET out == MakeRequest(resp)
              missing == Len(out.response.body.DomainCheckResult) = 0
          IN  /\ lastResp' = [lastResp EXCEPT ![c] = resp]
              /\ failures' = IF out.threw \/ missing THEN failures + 1 ELSE failures
              /\ result' = [result EXCEPT ![c] =
                              IF out.threw THEN Outcome(op[c], "error", out.error, <<>>)
                              ELSE IF missing
                              THEN Outcome(op[c], "error", TypeError, <<>>)
                              ELSE Outcome(op[c], "ok", NoError,
                                           JsonObject(CheckDomainResult(out.response.body)))]
    /\ pc' = [pc EXCEPT ![c] = "done"]
    /\ outstanding' = [outstanding EXCEPT ![c] = @ - 1]
    /\ UNCHANGED <<zone, registered, op, readSet, calls, stale, lastWriter, expected,
                   overlapped, opsStarted, client, local, history>>

\* the resource, several domains: checkDomains from the reply on, and the results as
\* JSON
ReceiveBulk(c) ==
    /\ pc[c] = "bulk"
    /\ outstanding[c] > 0
    /\ \E resp \in {HttpResponse("OK", <<>>,
                                  RemoteCheck(Pending(c).params[<<"DomainList", 0>>]))}
                       \cup FailureReplies \cup NodelessReplies :
          LET out == MakeRequest(resp)
              missing == Len(out.response.body.DomainCheckResult) = 0
          IN  /\ lastResp' = [lastResp EXCEPT ![c] = resp]
              /\ failures' = IF out.threw \/ missing THEN failures + 1 ELSE failures
              /\ result' = [result EXCEPT ![c] =
                              IF out.threw THEN Outcome(op[c], "error", out.error, <<>>)
                              ELSE IF missing
                              THEN Outcome(op[c], "error", TypeError, <<>>)
                              ELSE Outcome(op[c], "ok", NoError,
                                           JsonArray(CheckDomainsResult(out.response.body)))]
    /\ pc' = [pc EXCEPT ![c] = "done"]
    /\ outstanding' = [outstanding EXCEPT ![c] = @ - 1]
    /\ UNCHANGED <<zone, registered, op, readSet, calls, stale, lastWriter, expected,
                   overlapped, opsStarted, client, local, history>>

\* suggest-domains: checkDomains(batch) from the reply on, and the loop's next turn
ReceiveBatch(c) ==
    /\ pc[c] = "batch"
    /\ outstanding[c] > 0
    /\ \E resp \in {HttpResponse("OK", <<>>,
                                  RemoteCheck(Pending(c).params[<<"DomainList", 0>>]))}
                       \cup FailureReplies \cup NodelessReplies :
          LET out == MakeRequest(resp)
              missing == Len(out.response.body.DomainCheckResult) = 0
              results == local[c].results
                            \o BatchResults(CheckDomainsResult(out.response.body))
              i == local[c].i + batchSize
          IN  /\ lastResp' = [lastResp EXCEPT ![c] = resp]
              /\ failures' = IF out.threw \/ missing THEN failures + 1 ELSE failures
              /\ IF out.threw \/ missing
                 THEN /\ pc' = [pc EXCEPT ![c] = "done"]
                      /\ result' = [result EXCEPT ![c] =
                                      Outcome(op[c], "error",
                                              IF out.threw THEN out.error ELSE TypeError,
                                              <<>>)]
                      /\ UNCHANGED local
                 ELSE /\ local' = [local EXCEPT ![c].i = i, ![c].results = results]
                      /\ IF i < Len(local[c].names)
                         THEN /\ UNCHANGED <<pc, result>>
                         ELSE /\ pc' = [pc EXCEPT ![c] = "done"]
                              /\ result' = [result EXCEPT ![c] =
                                              Outcome(op[c], "ok", NoError, results)]
    /\ outstanding' = [outstanding EXCEPT ![c] = @ - 1]
    /\ UNCHANGED <<zone, registered, op, readSet, calls, stale, lastWriter, expected,
                   overlapped, opsStarted, client, history>>

NextTools ==
    \E c \in Clients :
        \/ StartTool(c)
        \/ SendStep(c)
        \/ ReceiveRead(c)
        \/ ReceiveWrite(c)
        \/ ReceiveCheck(c)
        \/ ReceiveBulk(c)
        \/ ReceiveBatch(c)
        \/ Return(c)

SpecTools == InitTools /\ [][NextTools]_vars

-----------------------------------------------------------------------------
(* Vocabulary of the properties *)

Mutating(c) == op[c].kind \in {"add", "update", "delete"}

\* the operation of c has issued its setHosts request
WriteIssued(c) ==
    /\ Len(calls[c]) = 2
    /\ calls[c][2].command = "namecheap.domains.dns.setHosts"

\* the record set the write of c carried, as the remote takes it
Written(c) == ZoneContent(HostsFromParams(calls[c][2].params))

\* the record equals the criteria on every field present in the criteria
EqualOnCriteria(record, criteria) ==
    \A f \in Fields :
        criteria[f] = Absent
            \/ (IF record[f] = Absent THEN Undefined ELSE record[f]) = criteria[f]

\* the record is outside the change the caller of c intends
Outside(c, record) ==
    op[c].kind = "add" \/ ~EqualOnCriteria(record, op[c].criteria)

\* what getDNSRecords(domain) returns when issued in this state
Readback(domain) == GetDNSRecordsResult(RemoteGetHosts(GetHostsParams(domain)))

\* no other caller wrote the zone of c's operation since c read it
Undisturbed(c) == ~stale[c] /\ lastWriter[KeyOf(op[c].domain)] = c

Succeeded(c) == pc[c] = "done" /\ result[c].status = "ok"

\* the error the caller of the operation gets: a tool's caller gets the tool's error
CallerError(c) == IF op[c].via = "tool" THEN result[c].toolError ELSE result[c].error

-----------------------------------------------------------------------------
(* Properties *)

\* C1: in every add, update and delete, each record that was read and lies outside
\* the intended change (no match with the criteria; for add, every record) is in
\* the record set passed to the write at least as often as it was read outside
\* the change, with the same name, type, address, priority and TTL.
C1_WritePreservesOthers ==
    \A c \in Clients :
        (Mutating(c) /\ WriteIssued(c)) =>
            \A i \in 1..Len(readSet[c]) :
                Outside(c, readSet[c][i]) =>
                    Cardinality({ j \in 1..Len(Written(c)) :
                                    Written(c)[j] = Content(readSet[c][i]) })
                      >= Cardinality({ j \in 1..Len(readSet[c]) :
                                         /\ Outside(c, readSet[c][j])
                                         /\ Content(readSet[c][j]) = Content(readSet[c][i]) })

\* an update that changed one record and had to leave two others alone
C1_Witness ==
    \E c \in Clients :
        /\ Succeeded(c) /\ op[c].kind = "update" /\ WriteIssued(c)
        /\ Len(readSet[c]) = 3
        /\ \E i, j \in 1..3 :
            /\ EqualOnCriteria(readSet[c][i], op[c].criteria)
            /\ Written(c)[i] # Content(readSet[c][i])
            /\ ~EqualOnCriteria(readSet[c][j], op[c].criteria)

\* C2: after a successful addDNSRecord(d, R) on a non-empty zone read as Z, with R
\* equal to no record of Z and no other write to the zone, getDNSRecords(d) returns
\* exactly the records of Z and R: one record more, and as a set Z with R added.
C2_AddThenGet ==
    \A c \in Clients :
        ( /\ Succeeded(c) /\ op[c].kind = "add" /\ Undisturbed(c)
          /\ Len(readSet[c]) > 0
          /\ \A i \in 1..Len(readSet[c]) : Content(readSet[c][i]) # Content(op[c].record) )
        => /\ Len(Readback(op[c].domain)) = Len(readSet[c]) + 1
           /\ Range(ContentSeq(Readback(op[c].domain)))
                = Range(ContentSeq(readSet[c])) \cup {Content(op[c].record)}

\* an add of a new record to a zone of two records, completed undisturbed
C2_Witness ==
    \E c \in Clients :
        /\ Succeeded(c) /\ op[c].kind = "add" /\ Undisturbed(c)
        /\ Len(readSet[c]) = 2
        /\ \A i \in 1..Len(readSet[c]) : Content(readSet[c][i]) # Content(op[c].record)
        /\ Content(op[c].record) \in Range(ContentSeq(Readback(op[c].domain)))

\* C3: updateDNSRecord writes, at every position, the record read there with the
\* updates laid over it if the record equals the criteria on every field the
\* criteria have, and the record as read otherwise; a written record differs from
\* the one read only where the criteria matched.
C3_UpdateMatchesAllCriteria ==
    \A c \in Clients :
        (op[c].kind = "update" /\ WriteIssued(c)) =>
            /\ Len(Written(c)) = Len(readSet[c])
            /\ \A i \in 1..Len(readSet[c]) :
                /\ EqualOnCriteria(readSet[c][i], op[c].criteria) =>
                       Written(c)[i] = Content(Merge(readSet[c][i], op[c].updates))
                /\ ~EqualOnCriteria(readSet[c][i], op[c].criteria) =>
                       Written(c)[i] = Content(readSet[c][i])

\* the example of the specification: (a, A, 1.1.1.1) becomes 9.9.9.9, (b, A, 2.2.2.2) stays
C3_Witness ==
    \E c \in Clients :
        /\ op[c].kind = "update" /\ WriteIssued(c) /\ Succeeded(c)
        /\ op[c].criteria = Partial(Absent, "a", "A", Absent, Absent, Absent)
        /\ op[c].updates = Partial(Absent, Absent, Absent, "9.9.9.9", Absent, Absent)
        /\ ContentSeq(readSet[c])
             = << Content(DNSRecord("a", "A", "1.1.1.1", Undefined, Undefined)),
                  Content(DNSRecord("b", "A", "2.2.2.2", Undefined, "1800")) >>
        /\ Written(c)
             = << Content(DNSRecord("a", "A", "9.9.9.9", Undefined, Undefined)),
                  Content(DNSRecord("b", "A", "2.2.2.2", Undefined, "1800")) >>

\* C4: deleteDNSRecord writes exactly the records read that differ from the criteria
\* on at least one field the criteria have, in the order read: a record is left out
\* if and only if it equals the criteria on all their fields.
C4_DeleteExactMatch ==
    \A c \in Clients :
        (op[c].kind = "delete" /\ WriteIssued(c)) =>
            Written(c) = ContentSeq(SelectSeq(readSet[c],
                            LAMBDA r : ~EqualOnCriteria(r, op[c].criteria)))

\* delete of (a, A): the A record is gone, the MX record of the same name survives
C4_Witness ==
    \E c \in Clients :
        /\ op[c].kind = "delete" /\ WriteIssued(c) /\ Succeeded(c)
        /\ op[c].criteria = Partial(Absent, "a", "A", Absent, Absent, Absent)
        /\ ContentSeq(readSet[c])
             = << Content(DNSRecord("a", "A", "1.1.1.1", Undefined, Undefined)),
                  Content(DNSRecord("a", "MX", "m", "0", Undefined)) >>
        /\ Written(c) = << Content(DNSRecord("a", "MX", "m", "0", Undefined)) >>

\* C5: after a successful setDNSRecords(d, getDNSRecords(d)) with no other write to
\* the zone, getDNSRecords(d) returns the same set of records as the first read.
C5_RoundTrip ==
    \A c \in Clients :
        (Succeeded(c) /\ op[c].kind = "resave" /\ Undisturbed(c)) =>
            Range(ContentSeq(Readback(op[c].domain))) = Range(ContentSeq(readSet[c]))

\* a round trip of a zone that holds a record with a priority
C5_Witness ==
    \E c \in Clients :
        /\ Succeeded(c) /\ op[c].kind = "resave" /\ Undisturbed(c)
        /\ \E i \in 1..Len(readSet[c]) : readSet[c][i].mxPref = "0"

\* C6: an update or delete whose criteria equal no record that was read has issued
\* the write once it is over, the write carried the records as read, and the
\* operation ends without an error unless the write's own gateway call failed.
C6_ZeroMatchStillWrites ==
    \A c \in Clients :
        ( /\ pc[c] = "done" /\ op[c].kind \in {"update", "delete"}
          /\ Len(calls[c]) >= 1
          /\ ~(Len(calls[c]) = 1 /\ result[c].status = "error")
          /\ \A i \in 1..Len(readSet[c]) : ~EqualOnCriteria(readSet[c][i], op[c].criteria) )
        => /\ WriteIssued(c)
           /\ Written(c) = ContentSeq(readSet[c])
           /\ (lastResp[c].transport = "ok" /\ lastResp[c].Status = "OK")
                 => (result[c].status = "ok" /\ CallerError(c) = NoError)

\* an update and a delete that matched none of two records and ended without error
C6_Witness ==
    \E c \in Clients :
        /\ Succeeded(c) /\ op[c].kind \in {"update", "delete"} /\ WriteIssued(c)
        /\ Len(readSet[c]) = 2
        /\ \A i \in 1..Len(readSet[c]) : ~EqualOnCriteria(readSet[c][i], op[c].criteria)
        /\ Written(c) = ContentSeq(readSet[c])

\* C7: an operation whose zone was written by another caller between its read and
\* its write still writes the set computed from its own, stale, read: once its write
\* is answered OK the operation ends without error, and while its write is the last
\* one the zone holds exactly the transform of what it had read.
C7_StaleWriteWins ==
    \A c \in Clients :
        ( /\ pc[c] = "done" /\ Mutating(c) /\ stale[c] /\ WriteIssued(c)
          /\ lastResp[c].transport = "ok" /\ lastResp[c].Status = "OK" )
        => /\ result[c].status = "ok"
           /\ CallerError(c) = NoError
           /\ lastWriter[KeyOf(op[c].domain)] = c =>
                ZoneContent(zone[KeyOf(op[c].domain)])
                    = ContentSeq(Transformed(op[c], readSet[c]))

\* a lost update: a delete that succeeded and removed a record, and a stale write of
\* another caller that succeeded after it and brought the deleted record back
C7_Witness ==
    \E c, o \in Clients :
        /\ c # o
        /\ Succeeded(c) /\ Succeeded(o)
        /\ op[c].domain = op[o].domain
        /\ Mutating(c) /\ stale[c] /\ lastWriter[KeyOf(op[c].domain)] = c
        /\ op[o].kind = "delete" /\ WriteIssued(o)
        /\ Len(Written(o)) < Len(readSet[o])
        /\ \E i \in 1..Len(Readback(op[o].domain)) :
              EqualOnCriteria(Readback(op[o].domain)[i], op[o].criteria)

\* C8: as long as no two operations were in flight at the same time and no gateway
\* call failed, every zone holds what the operations carried out so far give when
\* applied one after another to the initial zone.
C8_SerializedNoLostUpdate ==
    (~overlapped /\ failures = 0) =>
        \A k \in ZoneKeys : ZoneContent(zone[k]) = expected[k]

\* an add followed by a delete, one after the other: (a, A) gone, the added record kept
C8_Witness ==
    /\ ~overlapped /\ failures = 0 /\ opsStarted = 2
    /\ \E c \in Clients :
        /\ Succeeded(c) /\ op[c].kind = "delete"
        /\ ZoneContent(zone[KeyOf(op[c].domain)])
             = << Content(DNSRecord("b", "A", "2.2.2.2", Undefined, "1800")),
                  Content(DNSRecord("b", "A", "9.9.9.9", Undefined, Undefined)) >>

\* the create command of c's register operation was answered Status="ERROR" with
\* the error 2019166 "Domain name already exists" first
CreateRefused(c) ==
    /\ pc[c] = "done" /\ op[c].kind = "register"
    /\ Len(calls[c]) >= 1
    /\ calls[c][Len(calls[c])].command = "namecheap.domains.create"
    /\ lastResp[c].transport = "ok" /\ lastResp[c].Status = "ERROR"
    /\ Len(lastResp[c].Errors) >= 1
    /\ lastResp[c].Errors[1] = Err1

C10_ErrorStatusThrowsFirst ==
    \A c \in Clients :
        (lastResp[c].transport = "ok" /\ lastResp[c].Status = "ERROR") =>
            /\ pc[c] = "done"
            /\ result[c].status = "error"
            /\ result[c].value = <<>>
            /\ result[c].error.name = "NamecheapError"
            /\ Len(lastResp[c].Errors) >= 1 =>
                 result[c].error = NamecheapError(<<lastResp[c].Errors[1].text>>,
                                                  lastResp[c].Errors[1].Number)

\* a response that reports two different errors: the first one is thrown
C10_Witness ==
    \E c \in Clients :
        /\ lastResp[c].transport = "ok" /\ lastResp[c].Status = "ERROR"
        /\ Len(lastResp[c].Errors) = 2
        /\ lastResp[c].Errors[1] # lastResp[c].Errors[2]
        /\ result[c].error.code = lastResp[c].Errors[1].Number

\* the request got no usable reply: the connection failed or timed out
TransportFailed(resp) == resp.transport \notin {"ok", ""}

\* the body has the error status and names no error: not a body the protocol allows
MalformedBody(resp) ==
    resp.transport = "ok" /\ resp.Status = "ERROR" /\ Len(resp.Errors) = 0

\* the remote reported an error: the error status with a (Number, text) entry
RemoteReported(resp) ==
    resp.transport = "ok" /\ resp.Status = "ERROR" /\ Len(resp.Errors) >= 1

\* the numbers the remote gives to its errors
RemoteCodes == {Err1.Number, Err2.Number, Err3.Number}

\* C11: a gateway call that fails at the transport (no connection, timeout, a body
\* that cannot be read as an error report) ends the operation with a NamecheapError
\* of code REQUEST_FAILED whose message is "API request failed: " followed by the
\* cause; an error the remote reported ends it with the remote's number as code and
\* never with REQUEST_FAILED, and a transport failure never carries a remote number.
C11_TransportAndRemoteDistinct ==
    \A c \in Clients :
        /\ TransportFailed(lastResp[c]) =>
              /\ pc[c] = "done" /\ result[c].status = "error"
              /\ result[c].error
                   = NamecheapError(<<"API request failed: ", lastResp[c].transport>>,
                                    "REQUEST_FAILED")
        /\ MalformedBody(lastResp[c]) =>
              /\ pc[c] = "done" /\ result[c].status = "error"
              /\ result[c].error.name = "NamecheapError"
              /\ result[c].error.code = "REQUEST_FAILED"
              /\ result[c].error.message[1] = "API request failed: "
        /\ RemoteReported(lastResp[c]) =>
              /\ pc[c] = "done" /\ result[c].status = "error"
              /\ result[c].error.code = lastResp[c].Errors[1].Number
              /\ result[c].error.code # "REQUEST_FAILED"
              /\ result[c].error.message = <<lastResp[c].Errors[1].text>>
        /\ result[c].error.code = "REQUEST_FAILED" =>
              TransportFailed(lastResp[c]) \/ MalformedBody(lastResp[c])
        /\ result[c].error.code \in RemoteCodes => RemoteReported(lastResp[c])

\* one caller's create timed out and another's was refused by the remote: the first
\* holds REQUEST_FAILED with the cause, the second the remote's number
C11_Witness ==
    \E c, o \in Clients :
        /\ c # o
        /\ lastResp[c].transport = "timeout exceeded"
        /\ result[c].error.code = "REQUEST_FAILED"
        /\ result[c].error.message = <<"API request failed: ", "timeout exceeded">>
        /\ RemoteReported(lastResp[o])
        /\ result[o].error.code = "2019166"

\* C12 as stated: every failure of a facade operation is the gateway's error,
\* unchanged: a NamecheapError with the code and message the gateway produced for
\* the reply, whatever result tree the reply carried.
C12_AsStated ==
    \A c \in Clients :
        result[c].status = "error" =>
            /\ result[c].error.name = "NamecheapError"
            /\ MakeRequest(lastResp[c]).threw
            /\ result[c].error = MakeRequest(lastResp[c]).error

\* the register operation that checks availability: the register-domain tool
RegisterTool(c) == op[c].kind = "register" /\ op[c].via = "tool"

\* the i-th request of c is the availability check of the operation's domain
IsCheckOfDomain(c, i) ==
    /\ calls[c][i].command = "namecheap.domains.check"
    /\ calls[c][i].params[<<"DomainList", 0>>] = op[c].domain

\* the latest reply to c is a check result with the given Available attribute
CheckAnswered(c, available) ==
    /\ lastResp[c].transport = "ok" /\ lastResp[c].Status = "OK"
    /\ Len(lastResp[c].body.DomainCheckResult) >= 1
    /\ lastResp[c].body.DomainCheckResult[1].Available = available

C14_BulkOrderAndCount ==
    \A c \in Clients :
        (op[c].kind = "checkBulk" /\ pc[c] = "done") =>
            /\ Len(calls[c]) = 1
            /\ calls[c][1].command = "namecheap.domains.check"
            /\ DOMAIN calls[c][1].params = {<<"DomainList", 0>>}
            /\ Split(calls[c][1].params[<<"DomainList", 0>>], ",") = op[c].domains
            /\ result[c].status = "ok" =>
                  /\ Len(result[c].value) = Len(op[c].domains)
                  /\ \A i \in 1..Len(op[c].domains) :
                        /\ result[c].value[i].domain = op[c].domains[i]
                        /\ result[c].value[i].available
                              = (op[c].domains[i] \notin registered)
                        /\ result[c].value[i].isPremium
                              = (op[c].domains[i] \in DOMAIN PremiumPrices)

\* the example of the specification: the first domain is available, the second is
\* premium and unavailable, and the two results come back in that order
C14_Witness ==
    \E c \in Clients :
        /\ op[c].kind = "checkBulk" /\ Succeeded(c)
        /\ op[c].domains = << <<"a", ".", "c">>, <<"p", ".", "c">> >>
        /\ Len(result[c].value) = 2
        /\ result[c].value[1].domain = <<"a", ".", "c">>
        /\ result[c].value[1].available
        /\ result[c].value[2].domain = <<"p", ".", "c">>
        /\ ~result[c].value[2].available
        /\ result[c].value[2].isPremium
        /\ result[c].value[2].premiumPrice = [defined |-> TRUE, number |-> 13]

\* the latest reply to c is a successful getHosts reply with its result node
ReadAnswered(c) ==
    /\ lastResp[c].transport = "ok" /\ lastResp[c].Status = "OK"
    /\ Len(lastResp[c].body.DomainDNSGetHostsResult) >= 1

\* what holds of the requests of a mutating operation at every moment
C15_Requests(c) ==
    /\ Len(calls[c]) <= 2
    /\ pc[c] = "read" => Len(calls[c]) = 0
    /\ Len(calls[c]) >= 1 => calls[c][1].command = "namecheap.domains.dns.getHosts"
    /\ pc[c] = "write" => (Len(calls[c]) = 1 /\ ReadAnswered(c))
    /\ Len(calls[c]) = 2 =>
          /\ calls[c][2].command = "namecheap.domains.dns.setHosts"
          /\ ZoneOf(calls[c][2].params) = ZoneOf(calls[c][1].params)
          /\ pc[c] = "done"
    /\ (pc[c] = "done" /\ result[c].status = "ok") => Len(calls[c]) = 2
    /\ (pc[c] = "done" /\ Len(calls[c]) = 1) =>
          (result[c].status = "error" /\ ~ReadAnswered(c))

\* C15: an add, update or delete issues at most two requests, first getHosts and
\* then setHosts on the zone of the getHosts; setHosts is issued only from the point
\* where the one request so far is the getHosts and its reply was a success, an
\* operation that ends well has issued both, an operation whose read failed ends
\* with the error after that one request, and the step in which a read fails leaves
\* every zone as it was.
C15_ReadThenWrite ==
    /\ [](\A c \in Clients : Mutating(c) => C15_Requests(c))
    /\ [][\A c \in Clients :
             (Mutating(c) /\ pc[c] = "read" /\ pc'[c] = "done") =>
                 (zone' = zone /\ Len(calls'[c]) = 1)]_vars

\* two adds on one zone: one read and wrote, the other's read failed and it ended
\* with the error after its single request
C15_Witness ==
    \E c, o \in Clients :
        /\ c # o /\ Mutating(c) /\ Mutating(o)
        /\ Succeeded(c) /\ Len(calls[c]) = 2
        /\ ZoneOf(calls[c][2].params) = ZoneOf(calls[c][1].params)
        /\ pc[o] = "done" /\ result[o].status = "error" /\ Len(calls[o]) = 1

\* the gateway call that got this reply failed
FailedReply(resp) ==
    TransportFailed(resp) \/ (resp.transport = "ok" /\ resp.Status = "ERROR")

\* c is at a point where its next step is a gateway call
AboutToCall(c) == pc[c] \in {"read", "write", "check", "create"}

\* what holds of an operation's requests and of a failed call at every moment
C16_State(c) ==
    /\ Len(calls[c]) <= 2
    /\ \A i, j \in 1..Len(calls[c]) : i # j => calls[c][i].command # calls[c][j].command
    /\ FailedReply(lastResp[c]) =>
          /\ pc[c] = "done"
          /\ result[c].status = "error"
          /\ result[c].error.name = "NamecheapError"
          /\ TransportFailed(lastResp[c]) =>
                result[c].error.message = <<"API request failed: ", lastResp[c].transport>>
          /\ RemoteReported(lastResp[c]) =>
                result[c].error.code = lastResp[c].Errors[1].Number

\* what holds of every step of c
C16_Step(c) ==
    /\ (AboutToCall(c) /\ pc'[c] # pc[c]) => Len(calls'[c]) = Len(calls[c]) + 1
    /\ pc[c] = "done" => (calls'[c] = calls[c] \/ calls'[c] = <<>>)
    /\ (pc[c] = "write" /\ pc'[c] = "done" /\ result'[c].status = "error") =>
          /\ Len(calls'[c]) = (IF Mutating(c) THEN 2 ELSE Len(calls[c]) + 1)
          /\ zone' = zone \/ zone' = RemoteSetHosts(calls'[c][Len(calls'[c])].params)

\* C16: every gateway call of an operation adds exactly one request, no operation
\* issues a command twice or more than two requests, a call that fails ends the
\* operation with the error made from that reply, an operation that has ended issues
\* no request, and a write that fails after its read leaves the zone either as it
\* was or as that one write set it, with no request after it.
C16_NoRetryNoRollback ==
    /\ [](\A c \in Clients : C16_State(c))
    /\ [][\A c \in Clients : C16_Step(c)]_vars

\* an add whose read succeeded and whose write was refused: it ended with the error
\* after two requests and the zone does not hold the record
C16_Witness ==
    \E c \in Clients :
        /\ op[c].kind = "add" /\ pc[c] = "done" /\ Len(calls[c]) = 2
        /\ RemoteReported(lastResp[c])
        /\ result[c].status = "error"
        /\ result[c].error.code = lastResp[c].Errors[1].Number
        /\ ZoneContent(zone[KeyOf(op[c].domain)]) = ContentSeq(readSet[c])
        /\ ZoneContent(zone[KeyOf(op[c].domain)]) # Written(c)

\* the optional field of a record has a value: it is set and not the empty string
HasValue(v) == v \notin {Undefined, Absent, ""}

\* C17: the setHosts request of setDNSRecords(d, records) carries, for every position
\* i of the n records, HostName{i}, RecordType{i} and Address{i} with the name, type
\* and address of the i-th record, MXPref{i} / TTL{i} with its priority / TTL exactly
\* when the record has one, and apart from SLD and TLD no other parameter; once the
\* remote has accepted it the zone holds exactly the given records, in their order.
C17_SetHostsCarriesRecords ==
    \A c \in Clients :
        (op[c].kind = "set" /\ Len(calls[c]) = 1) =>
            LET records == op[c].records
                n == Len(records)
                params == calls[c][1].params
            IN  /\ calls[c][1].command = "namecheap.domains.dns.setHosts"
                /\ \A i \in 1..n :
                      /\ {<<"HostName", i>>, <<"RecordType", i>>, <<"Address", i>>}
                            \subseteq DOMAIN params
                      /\ params[<<"HostName", i>>] = records[i].name
                      /\ params[<<"RecordType", i>>] = records[i].type
                      /\ params[<<"Address", i>>] = records[i].address
                      /\ (<<"MXPref", i>> \in DOMAIN params) = HasValue(records[i].mxPref)
                      /\ (<<"TTL", i>> \in DOMAIN params) = HasValue(records[i].ttl)
                      /\ HasValue(records[i].mxPref) =>
                            params[<<"MXPref", i>>] = records[i].mxPref
                      /\ HasValue(records[i].ttl) => params[<<"TTL", i>>] = records[i].ttl
                /\ \A k \in DOMAIN params :
                      \/ k \in {<<"SLD", 0>>, <<"TLD", 0>>}
                      \/ /\ k[1] \in {"HostName", "RecordType", "Address", "MXPref", "TTL"}
                         /\ k[2] \in 1..n
                /\ (Succeeded(c) /\ KeyOf(op[c].domain) \in ZoneKeys) =>
                      ZoneContent(zone[KeyOf(op[c].domain)])
                        = [i \in 1..n |->
                             [name |-> records[i].name, type |-> records[i].type,
                              address |-> records[i].address,
                              mxPref |-> IF HasValue(records[i].mxPref)
                                         THEN records[i].mxPref ELSE Undefined,
                              ttl |-> IF HasValue(records[i].ttl)
                                      THEN records[i].ttl ELSE Undefined]]

\* three records written over a zone: the first with priority "0" and an empty TTL,
\* the second with a TTL and no priority, the third with neither
C17_Witness ==
    \E c \in Clients :
        /\ op[c].kind = "set" /\ Succeeded(c) /\ Len(op[c].records) = 3
        /\ op[c].domain = <<"a", ".", "c">>
        /\ <<"MXPref", 1>> \in DOMAIN calls[c][1].params
        /\ <<"TTL", 1>> \notin DOMAIN calls[c][1].params
        /\ <<"TTL", 2>> \in DOMAIN calls[c][1].params
        /\ <<"MXPref", 3>> \notin DOMAIN calls[c][1].params
        /\ Len(zone[KeyOf(op[c].domain)]) = 3
        /\ zone[KeyOf(op[c].domain)][1].MXPref = "0"

\* the fields of a record that a write carries
ContentFields == {"name", "type", "address", "mxPref", "ttl"}

\* a field value as the zone holds it: an optional field without a value is unset
AsHeld(f, v) == IF f \in {"mxPref", "ttl"} /\ ~HasValue(v) THEN Undefined ELSE v

\* C18: in the write of updateDNSRecord every record that equals the criteria is
\* written, at its position, with each field the updates have taken from the updates
\* and each field the updates lack as it was read; this holds of every matching
\* record when several match.
C18_UpdateIsUnion ==
    \A c \in Clients :
        (op[c].kind = "update" /\ WriteIssued(c)) =>
            \A i \in 1..Len(readSet[c]) :
                EqualOnCriteria(readSet[c][i], op[c].criteria) =>
                    \A f \in ContentFields :
                        Written(c)[i][f]
                          = IF op[c].updates[f] # Absent
                            THEN AsHeld(f, op[c].updates[f])
                            ELSE AsHeld(f, readSet[c][i][f])

\* two records match (a, A): both get the new address and keep name and type, and
\* the third record keeps its address
C18_Witness ==
    \E c \in Clients :
        /\ op[c].kind = "update" /\ WriteIssued(c) /\ Succeeded(c)
        /\ Len(readSet[c]) = 3
        /\ op[c].updates.address = "9.9.9.9" /\ op[c].updates.name = Absent
        /\ EqualOnCriteria(readSet[c][1], op[c].criteria)
        /\ EqualOnCriteria(readSet[c][2], op[c].criteria)
        /\ ~EqualOnCriteria(readSet[c][3], op[c].criteria)
        /\ Written(c)[1].address = "9.9.9.9" /\ Written(c)[1].name = readSet[c][1].name
        /\ Written(c)[2].address = "9.9.9.9" /\ Written(c)[2].name = readSet[c][2].name
        /\ Written(c)[3].address = readSet[c][3].address
        /\ readSet[c][1].address # "9.9.9.9"

\* the positions of the records c read that equal its criteria on the present fields
Matching(c) ==
    { i \in 1..Len(readSet[c]) : EqualOnCriteria(readSet[c][i], op[c].criteria) }

\* C19: a record counts as matching exactly when it equals the criteria on the
\* fields the criteria have, whatever its other fields: a delete writes as many
\* records as do not match and an update changes no record that does not match;
\* with empty criteria a delete writes the empty set, with no indexed parameter at
\* all, and an update writes every record read with the updates laid over it.
C19_AbsentFieldsAreWildcards ==
    \A c \in Clients :
        WriteIssued(c) =>
            /\ op[c].kind = "delete" =>
                  Len(Written(c)) = Len(readSet[c]) - Cardinality(Matching(c))
            /\ op[c].kind = "update" =>
                  \A i \in 1..Len(readSet[c]) :
                      \/ i \in Matching(c)
                      \/ Written(c)[i] = Content(readSet[c][i])
            /\ (op[c].kind = "delete" /\ op[c].criteria = NoPartial) =>
                  /\ Written(c) = <<>>
                  /\ DOMAIN calls[c][2].params = {<<"SLD", 0>>, <<"TLD", 0>>}
            /\ (op[c].kind = "update" /\ op[c].criteria = NoPartial) =>
                  /\ Len(Written(c)) = Len(readSet[c])
                  /\ \A i \in 1..Len(readSet[c]) : \A f \in ContentFields :
                        Written(c)[i][f]
                          = IF op[c].updates[f] # Absent
                            THEN AsHeld(f, op[c].updates[f])
                            ELSE AsHeld(f, readSet[c][i][f])

\* an update with empty criteria gave every record the new address and TTL, and the
\* delete with empty criteria that followed read them all and wrote the empty set
C19_Witness ==
    \E c \in Clients :
        /\ op[c].kind = "delete" /\ op[c].criteria = NoPartial
        /\ WriteIssued(c) /\ Succeeded(c)
        /\ Len(readSet[c]) >= 2
        /\ \A i \in 1..Len(readSet[c]) :
              readSet[c][i].address = "9.9.9.9" /\ readSet[c][i].ttl = "300"
        /\ \E i, j \in 1..Len(readSet[c]) : readSet[c][i].name # readSet[c][j].name
        /\ Written(c) = <<>>
        /\ zone[KeyOf(op[c].domain)] = <<>>

HasDot(domain) == \E i \in 1..Len(domain) : domain[i] = "."

\* c has issued the getHosts or setHosts request of a getDNSRecords / setDNSRecords
ZoneRequested(c) ==
    /\ op[c].kind \in {"get", "set"}
    /\ Len(calls[c]) = 1

\* the split of one domain: with a dot in the domain, SLD has no dot and
\* SLD + "." + TLD is the domain; without one, SLD is the domain and TLD is empty
C20_SplitOf(c) ==
    LET sld == calls[c][1].params[<<"SLD", 0>>]
        tld == calls[c][1].params[<<"TLD", 0>>]
    IN  /\ ~HasDot(sld)
        /\ HasDot(op[c].domain) => sld \o <<".">> \o tld = op[c].domain
        /\ ~HasDot(op[c].domain) => (sld = op[c].domain /\ tld = <<>>)

\* C20 as stated: the split is as described and two requests for different domains
\* never address the same (SLD, TLD) pair.
C20_AsStated ==
    /\ \A c \in Clients : ZoneRequested(c) => C20_SplitOf(c)
    /\ \A c, o \in Clients :
          (ZoneRequested(c) /\ ZoneRequested(o) /\ op[c].domain # op[o].domain) =>
              ZoneOf(calls[c][1].params) # ZoneOf(calls[o][1].params)

\* C20: getDNSRecords and setDNSRecords send as SLD the part of the domain before
\* its first dot and as TLD everything after it, so with a dot in the domain
\* SLD + "." + TLD is the domain and without one TLD is empty; two different domains
\* that both contain a dot are never sent as the same (SLD, TLD) pair, while a
\* domain d without a dot and the domain d + "." are both sent as (d, "").
C20_SplitAtFirstDot ==
    /\ \A c \in Clients : ZoneRequested(c) => C20_SplitOf(c)
    /\ \A c, o \in Clients :
          (ZoneRequested(c) /\ ZoneRequested(o) /\ op[c].domain # op[o].domain) =>
              /\ (HasDot(op[c].domain) /\ HasDot(op[o].domain)) =>
                    ZoneOf(calls[c][1].params) # ZoneOf(calls[o][1].params)
              /\ op[o].domain = op[c].domain \o <<".">> =>
                    (~HasDot(op[c].domain) =>
                        ZoneOf(calls[c][1].params) = ZoneOf(calls[o][1].params))

\* requests for a.c.u and ac.u: sent as (a, c.u) and (ac, u)
C20_Witness ==
    \E c, o \in Clients :
        /\ ZoneRequested(c) /\ ZoneRequested(o)
        /\ op[c].domain = <<"a", ".", "c", ".", "u">>
        /\ op[o].domain = <<"a", "c", ".", "u">>
        /\ ZoneOf(calls[c][1].params) = << <<"a">>, <<"c", ".", "u">> >>
        /\ ZoneOf(calls[o][1].params) = << <<"a", "c">>, <<"u">> >>

\* C24: addDNSRecord never de-duplicates: the sequence it writes has one more record
\* than the sequence it read, and is the read records in their read order followed
\* by the new record in last position, also when the zone holds an identical record.
C24_AddAppendsLast ==
    \A c \in Clients :
        (op[c].kind = "add" /\ WriteIssued(c)) =>
            /\ Len(Written(c)) = Len(readSet[c]) + 1
            /\ SubSeq(Written(c), 1, Len(readSet[c])) = ContentSeq(readSet[c])
            /\ Written(c)[Len(Written(c))] = Content(op[c].record)

\* the record (a, A, 1.1.1.1) was added to a zone that held it twice already: the
\* zone holds it three times
C24_Witness ==
    \E c \in Clients :
        /\ op[c].kind = "add" /\ WriteIssued(c) /\ Succeeded(c)
        /\ Cardinality({ i \in 1..Len(readSet[c]) :
                            Content(readSet[c][i]) = Content(op[c].record) }) = 2
        /\ Cardinality({ i \in 1..Len(zone[KeyOf(op[c].domain)]) :
                            HostContent(zone[KeyOf(op[c].domain)][i])
                                = Content(op[c].record) }) = 3

\* the elements of part are elements of whole, in the order they have in whole
RECURSIVE IsSubsequence(_, _)
IsSubsequence(part, whole) ==
    IF Len(part) = 0 THEN TRUE
    ELSE IF Len(whole) = 0 THEN FALSE
    ELSE IF part[1] = whole[1] THEN IsSubsequence(Tail(part), Tail(whole))
    ELSE IsSubsequence(part, Tail(whole))

\* the positions 1..n taken in increasing order out of a sequence
Picked(seq, positions) ==
    LET RECURSIVE Pick(_)
        Pick(i) == IF i > Len(seq) THEN <<>>
                   ELSE (IF i \in positions THEN <<seq[i]>> ELSE <<>>) \o Pick(i + 1)
    IN  Pick(1)

\* C25: updateDNSRecord writes a sequence as long as the one it read, each record at
\* the position it was read at, every field as read or as the updates give it;
\* deleteDNSRecord writes records it read, in the relative order it read them in.
C25_PositionsAndOrderKept ==
    \A c \in Clients :
        WriteIssued(c) =>
            /\ op[c].kind = "update" =>
                  /\ Len(Written(c)) = Len(readSet[c])
                  /\ \A i \in 1..Len(readSet[c]) : \A f \in ContentFields :
                        \/ Written(c)[i][f] = Content(readSet[c][i])[f]
                        \/ /\ op[c].updates[f] # Absent
                           /\ EqualOnCriteria(readSet[c][i], op[c].criteria)
                           /\ Written(c)[i][f] = AsHeld(f, op[c].updates[f])
            /\ op[c].kind = "delete" =>
                  IsSubsequence(Written(c), ContentSeq(readSet[c]))

\* a delete read three records and wrote the first and the third, in that order; they
\* differ, so the order shows
C25_Witness ==
    \E c \in Clients :
        /\ op[c].kind = "delete" /\ WriteIssued(c) /\ Succeeded(c)
        /\ Len(readSet[c]) = 3
        /\ Written(c) = <<Content(readSet[c][1]), Content(readSet[c][3])>>
        /\ readSet[c][1] # readSet[c][3]
        /\ Content(readSet[c][1]) # Content(readSet[c][3])

\* the step is a gateway call of c
CallBy(c) == Len(calls'[c]) = Len(calls[c]) + 1

\* C26: a DNS operation on domain d touches no other zone: a gateway call of an
\* operation on d changes no zone but the one whose SLD + "." + TLD is d, and the
\* read and the write of an add, update or delete address that same zone.
C26_OtherZonesUntouched ==
    [][\A c \in Clients :
          CallBy(c) =>
              /\ \A k \in DOMAIN zone :
                    zone'[k] # zone[k] => k[1] \o <<".">> \o k[2] = op[c].domain
              /\ (Mutating(c) /\ Len(calls'[c]) = 2) =>
                    /\ ZoneOf(calls'[c][1].params) = ZoneOf(calls'[c][2].params)
                    /\ ZoneOf(calls'[c][2].params)[1] \o <<".">>
                            \o ZoneOf(calls'[c][2].params)[2] = op[c].domain]_vars

\* an add on a.c.u and an operation on a.c overlapped and both wrote: the zone of
\* a.c.u holds its record and the added one, the zone of a.c what the other wrote
C26_Witness ==
    \E c, o \in Clients :
        /\ op[c].domain = <<"a", ".", "c", ".", "u">> /\ op[c].kind = "add"
        /\ op[o].domain = <<"a", ".", "c">> /\ Mutating(o)
        /\ WriteIssued(c) /\ Succeeded(c) /\ WriteIssued(o) /\ Succeeded(o)
        /\ overlapped
        /\ ZoneContent(zone[KeyOf(op[c].domain)])
              = ContentSeq(readSet[c]) \o <<Content(op[c].record)>>
        /\ Len(zone[KeyOf(op[c].domain)]) = 2
        /\ ZoneContent(zone[KeyOf(op[o].domain)]) = Written(o)
        /\ Written(o) # Written(c)

\* the register-domain tool of c found the domain available and has not yet issued
\* the create command, and the domain has been registered in the meantime
CheckOutdated(c) ==
    /\ RegisterTool(c) /\ pc[c] = "create"
    /\ CheckAnswered(c, "true")
    /\ op[c].domain \in registered

\* C29: the check and the create of register-domain are two steps: when the domain
\* is registered after the check said available, the next call of the operation is
\* still the create command for that domain, and the operation ends with an error,
\* never with the "not available" result; when the remote answers the create with
\* its refusal, the error is the remote's, rethrown by the tool with its text.
C29_CheckThenCreateNotAtomic ==
    [][\A c \in Clients :
          (CheckOutdated(c) /\ CallBy(c)) =>
              /\ Len(calls'[c]) = 2
              /\ calls'[c][2].command = "namecheap.domains.create"
              /\ calls'[c][2].params[<<"DomainName", 0>>] = op[c].domain
              /\ pc'[c] = "done"
              /\ result'[c].status = "error"
              /\ lastResp'[c] = HttpResponse("ERROR", <<Err1>>, EmptyTree) =>
                    /\ result'[c].error = NamecheapError(<<Err1.text>>, Err1.Number)
                    /\ result'[c].toolError
                         = PlainError(<<"Failed to register domain: ", Err1.text>>)]_vars

\* two register-domain operations on one domain overlapped: both were told the
\* domain is available, one created it, and the create of the other was refused
C29_Witness ==
    \E c, o \in Clients :
        /\ c # o
        /\ RegisterTool(c) /\ RegisterTool(o) /\ op[c].domain = op[o].domain
        /\ Len(calls[c]) = 2 /\ Len(calls[o]) = 2
        /\ Succeeded(o)
        /\ CreateRefused(c)
        /\ result[c].status = "error"
        /\ op[c].domain \in registered

\* the hosts a reply to getHosts lists, with the identifiers the remote gave them
Listed(resp) ==
    LET hosts == resp.body.DomainDNSGetHostsResult[1].host
    IN  [i \in 1..Len(hosts) |->
            [hostId |-> hosts[i].HostId, name |-> hosts[i].Name, type |-> hosts[i].Type,
             address |-> hosts[i].Address, mxPref |-> hosts[i].MXPref,
             ttl |-> hosts[i].TTL]]

\* C21: the client keeps nothing between calls: its configuration and endpoint stay
\* as the constructor set them and every request goes to that endpoint with those
\* credentials; each getDNSRecords call issues one getHosts request of its own, and
\* when the remote answers with the zone it returns the hosts the zone holds at
\* that moment, whatever an earlier call read or wrote.
C21_NothingKeptBetweenCalls ==
    /\ [](\A c \in Clients : \A i \in 1..Len(calls[c]) :
            /\ calls[c][i].url = client.apiUrl
            /\ calls[c][i].ApiUser = client.config.apiUser
            /\ calls[c][i].ApiKey = client.config.apiKey
            /\ calls[c][i].ClientIp = client.config.clientIp)
    /\ [](client.apiUrl = IF client.config.sandbox
                          THEN "https://api.sandbox.namecheap.com/xml.response"
                          ELSE "https://api.namecheap.com/xml.response")
    /\ [][/\ client' = client
          /\ \A c \in Clients :
                (op[c].kind = "get" /\ pc[c] = "read") =>
                    /\ calls[c] = <<>>
                    /\ pc'[c] # "read" =>
                          /\ Len(calls'[c]) = 1
                          /\ calls'[c][1].command = "namecheap.domains.dns.getHosts"
                          /\ Len(lastResp'[c].body.DomainDNSGetHostsResult) > 0 =>
                                /\ result'[c].status = "ok"
                                /\ ContentSeq(result'[c].value)
                                     = ZoneContent(zone[ZoneOf(calls'[c][1].params)])
                                /\ result'[c].value = Listed(lastResp'[c])]_vars

\* the first caller set two records on a zone and the second caller's getDNSRecords,
\* issued after that, returned the records that were set
C21_Witness ==
    /\ op["c1"].kind = "set" /\ Succeeded("c1")
    /\ op["c2"].kind = "get" /\ Succeeded("c2")
    /\ op["c1"].domain = op["c2"].domain
    /\ Len(op["c1"].records) = 2
    /\ ContentSeq(result["c2"].value) = ContentSeq(op["c1"].records)
    /\ client.config.sandbox
    /\ calls["c2"][1].url = "https://api.sandbox.namecheap.com/xml.response"
    /\ ZoneContent(zone[KeyOf(op["c2"].domain)]) = ContentSeq(result["c2"].value)

\* C22: within one operation at most one gateway call is outstanding: a request is
\* sent only when every earlier request of the operation has its reply, so the
\* write of a read-modify-write follows the reply to its read and a batch of
\* suggest-domains follows the results of all batches before it.
C22_OneCallOutstanding ==
    \A c \in Clients :
        /\ outstanding[c] <= 1
        /\ outstanding[c] <= Len(calls[c])
        /\ (pc[c] = "batch" /\ Len(calls[c]) > 0) =>
              Len(local[c].results) = 20 * (Len(calls[c]) - outstanding[c])
        /\ (pc[c] = "write" /\ Len(calls[c]) > 0) =>
              /\ Len(calls[c]) = 1 + outstanding[c]
              /\ lastResp[c].transport = "ok" /\ lastResp[c].Status = "OK"
              /\ readSet[c] = Listed(lastResp[c])
        /\ pc[c] \in {"idle", "done"} => outstanding[c] = 0

\* suggest-domains has the results of its first two batches, forty, and its third
\* request is out
C22_Witness ==
    \E c \in Clients :
        /\ op[c].kind = "suggest" /\ pc[c] = "batch"
        /\ Len(calls[c]) = 3 /\ outstanding[c] = 1
        /\ Len(local[c].results) = 40
        /\ Len(local[c].names) = 44

\* the part of a resource URI after the prefix
DomainPart(c) == SubSeq(op[c].args.uri, 34, Len(op[c].args.uri))

\* names are the entries of part between its commas, without the blanks around them
\* and without the entries that are blank: each name lies in part, at starts[i], has
\* no comma and no blank at either end, consecutive names have a comma between them,
\* and part has nothing but commas and blanks outside the names
EntriesOf(part, names) ==
    \E starts \in [1..Len(names) -> 1..Len(part)] :
        LET ends == [i \in 1..Len(names) |-> starts[i] + Len(names[i]) - 1]
        IN  /\ \A i \in 1..Len(names) :
                  /\ Len(names[i]) > 0
                  /\ ends[i] <= Len(part)
                  /\ SubSeq(part, starts[i], ends[i]) = names[i]
                  /\ \A j \in 1..Len(names[i]) : names[i][j] # ","
                  /\ names[i][1] \notin {" ", "\t"}
                  /\ names[i][Len(names[i])] \notin {" ", "\t"}
            /\ \A i \in 1..(Len(names) - 1) :
                  \E p \in (ends[i] + 1)..(starts[i + 1] - 1) : part[p] = ","
            /\ \A p \in 1..Len(part) :
                  \/ part[p] \in {",", " ", "\t"}
                  \/ \E i \in 1..Len(names) : starts[i] <= p /\ p <= ends[i]

\* the operation of c reads the availability resource
ReadsAvailability(c) ==
    /\ op[c].kind = "resource"
    /\ Len(op[c].args.uri) >= 33
    /\ SubSeq(op[c].args.uri, 1, 33) = URI_PREFIX

\* C23: a read of the availability resource takes the part of the URI after the
\* prefix apart at the commas, trims the entries and drops the empty ones; with no
\* domain left it fails with 'No domain specified in availability URI' and no
\* gateway call, with one domain it makes one check of that domain and returns its
\* result as one object, with more it makes one check of the domains joined by
\* commas and returns an array of one result per domain, in their order.
C23_ResourceRead ==
    \A c \in Clients :
        ReadsAvailability(c) =>
            LET names == local[c].names
            IN  /\ EntriesOf(DomainPart(c), names)
                /\ Len(calls[c]) <= 1
                /\ Len(names) = 0 =>
                      /\ calls[c] = <<>>
                      /\ pc[c] = "done"
                      /\ result[c].status = "error"
                      /\ result[c].error
                           = PlainError(<<"No domain specified in availability URI">>)
                /\ Len(names) > 0 => (pc[c] = "done" => Len(calls[c]) = 1)
                /\ \A i \in 1..Len(calls[c]) :
                      /\ calls[c][i].command = "namecheap.domains.check"
                      /\ Len(names) = 1 =>
                            calls[c][i].params[<<"DomainList", 0>>] = names[1]
                      /\ Len(names) > 1 =>
                            Split(calls[c][i].params[<<"DomainList", 0>>], ",") = names
                /\ (Succeeded(c) /\ Len(names) = 1) =>
                      /\ Len(result[c].value) = 3
                      /\ result[c].value[1] = "{" /\ result[c].value[3] = "}"
                      /\ result[c].value[2].domain = names[1]
                      /\ result[c].value[2].available = (names[1] \notin registered)
                /\ (Succeeded(c) /\ Len(names) > 1) =>
                      /\ Len(result[c].value) = Len(names) + 2
                      /\ result[c].value[1] = "[" /\ result[c].value[Len(names) + 2] = "]"
                      /\ \A i \in 1..Len(names) :
                            /\ result[c].value[i + 1].domain = names[i]
                            /\ result[c].value[i + 1].available
                                 = (names[i] \notin registered)

\* the URI part " a.c , ,p.c,<tab>a.c.u" was read: three domains, one bulk check, an
\* array of three results
C23_Witness ==
    \E c \in Clients :
        /\ ReadsAvailability(c) /\ Succeeded(c)
        /\ DomainPart(c)[1] = " "
        /\ local[c].names = << <<"a", ".", "c">>, <<"p", ".", "c">>,
                               <<"a", ".", "c", ".", "u">> >>
        /\ Len(calls[c]) = 1
        /\ Len(result[c].value) = 5
        /\ result[c].value[2].available /\ ~result[c].value[3].available

\* the write of c is the setHosts request of an apply-dns-template
TemplateWritten(c) ==
    /\ op[c].kind = "template"
    /\ Len(calls[c]) = 2
    /\ calls[c][2].command = "namecheap.domains.dns.setHosts"

\* the records of the template c applies, as a zone holds them
TemplateOf(c) ==
    ContentSeq(TemplateRecords(op[c].domain, op[c].args.template, op[c].args.customValue))

\* the positions of the records c read whose name and type are those of no record
\* of the template
Unrelated(c) ==
    { i \in 1..Len(readSet[c]) :
        \A j \in 1..Len(TemplateOf(c)) :
            \/ readSet[c][i].name # TemplateOf(c)[j].name
            \/ readSet[c][i].type # TemplateOf(c)[j].type }

\* C27: apply-dns-template writes the records it read whose (name, type) pair is that
\* of no template record, as read and in read order, followed by all records of the
\* template; a record read is left out exactly when it has the name and the type of
\* some template record.
C27_TemplateWrite ==
    \A c \in Clients :
        TemplateWritten(c) =>
            /\ Written(c) = Picked(ContentSeq(readSet[c]), Unrelated(c)) \o TemplateOf(c)
            /\ \A i \in 1..Len(readSet[c]) :
                  (\E j \in 1..Len(Written(c)) - Len(TemplateOf(c)) :
                        Written(c)[j] = Content(readSet[c][i]))
                    <=> i \in Unrelated(c)

\* vercel was applied to a zone with (@, A), (www, CNAME), (@, TXT) and (a, A): the
\* first two went, the other two stayed in front of the two records of the template
C27_Witness ==
    \E c \in Clients :
        /\ TemplateWritten(c) /\ Succeeded(c)
        /\ op[c].args.template = "vercel"
        /\ Len(readSet[c]) = 4
        /\ Unrelated(c) = {3, 4}
        /\ readSet[c][3].name = "@" /\ readSet[c][3].type = "TXT"
        /\ ZoneContent(zone[KeyOf(op[c].domain)])
              = <<Content(readSet[c][3]), Content(readSet[c][4])>> \o TemplateOf(c)
        /\ Len(zone[KeyOf(op[c].domain)]) = 4

\* C28: apply-dns-template is idempotent on the zone: when two writes that follow
\* one another on a zone are those of the same template applied with the same
\* arguments, the second leaves the records the first left, none of them twice.
C28_TemplateIdempotent ==
    \A k \in DOMAIN history :
        \A i \in 1..(Len(history[k]) - 1) :
            (history[k][i].op.kind = "template" /\ history[k][i + 1].op = history[k][i].op)
                =>
                /\ Range(history[k][i + 1].content) = Range(history[k][i].content)
                /\ Len(history[k][i + 1].content) = Len(history[k][i].content)

\* github-pages was applied twice to a zone that held two (@, A) records: after the
\* second application the zone holds the four (@, A) records of the template, as
\* after the first
C28_Witness ==
    \E k \in DOMAIN history :
        /\ Len(history[k]) = 2
        /\ history[k][1].op.kind = "template"
        /\ history[k][1].op.args.template = "github-pages"
        /\ history[k][2].op = history[k][1].op
        /\ ZoneContent(zone[k]) = history[k][1].content
        /\ Cardinality({ i \in 1..Len(zone[k]) :
                            zone[k][i].Name = "@" /\ zone[k][i].Type = "A" }) = 4
        /\ Len(zone[k]) = 8

\* the smallest number of batches of twenty that hold n suggestions
Batches(n) == (n + 19) \div 20

\* C30: suggest-domains checks its suggestions in batches of at most 20 that follow
\* one another in the list: the j-th bulk check carries the suggestions from
\* position 20(j-1)+1 to position 20j, or to the end of the list, so that every
\* suggestion is sent once; the loop makes ceil(n/20) calls when no batch fails, and
\* a batch that fails is the last call of the operation.
C30_Batches ==
    \A c \in Clients :
        op[c].kind = "suggest" =>
            LET names == local[c].names
                n == Len(names)
            IN  /\ Len(calls[c]) <= Batches(n)
                /\ \A j \in 1..Len(calls[c]) :
                      LET sent == Split(calls[c][j].params[<<"DomainList", 0>>], ",")
                      IN  /\ calls[c][j].command = "namecheap.domains.check"
                          /\ Len(sent) >= 1 /\ Len(sent) <= 20
                          /\ Len(sent) = IF 20 * j <= n THEN 20 ELSE n - 20 * (j - 1)
                          /\ \A p \in 1..Len(sent) : sent[p] = names[20 * (j - 1) + p]
                /\ Succeeded(c) =>
                      /\ Len(calls[c]) = Batches(n)
                      /\ Len(result[c].value) = n
                      /\ \A p \in 1..n : result[c].value[p].domain = names[p]
                /\ (pc[c] = "done" /\ result[c].status = "error") =>
                      /\ outstanding[c] = 0
                      /\ Len(local[c].results) = 20 * (Len(calls[c]) - 1)
                      /\ \/ FailedReply(lastResp[c])
                         \/ Len(lastResp[c].body.DomainCheckResult) = 0
                /\ outstanding[c] <= 1

\* 44 suggestions were checked in three calls of 20, 20 and 4
C30_Witness ==
    \E c \in Clients :
        /\ op[c].kind = "suggest" /\ Succeeded(c)
        /\ Len(local[c].names) = 44
        /\ Len(calls[c]) = 3
        /\ Len(Split(calls[c][3].params[<<"DomainList", 0>>], ",")) = 4
        /\ Len(result[c].value) = 44

====
